---- MODULE Spec2Model ----
(***************************************************************************)
(* CUJ-Autorater: the analysis run of app.py (pre-flight, per-CUJ loop,    *)
(* summary), the result store of storage.py, the cost function of          *)
(* config.py and the retry wrapper of drive_client.py.                     *)
(*                                                                         *)
(* Durations are real numbers in the program (duration_seconds REAL); here  *)
(* they are counted in ticks of 1/DurDen second, and token counts before    *)
(* int() in 1/DurDen token. Money is counted in 1/DurDen nano-dollar: a     *)
(* rate of r dollars per million tokens is r * 1000 nano-dollars per token, *)
(* so every cost of config.MODELS is an integer. Rounding of Python floats  *)
(* is not modelled.                                                         *)
(***************************************************************************)
EXTENDS Integers, Sequences, FiniteSets, TLC

\* ------------------------------------------------------------------ bounds
MaxCujs == 3
MaxVideos == 2
MaxClicks == 2
MaxRuns == 1
DurDen == 2

\* --------------------------------------------------------------- constants
TOKENS_PER_VIDEO_SECOND == 258
TOKENS_PER_AUDIO_SECOND == 25
AVERAGE_PROMPT_TOKENS == 1000
AVERAGE_RESPONSE_TOKENS == 500

\* Python None / SQL NULL: in a text field, in a number field (every real
\* number of the model is >= 0), and as a file path
None == "None"
NoneNum == -1
NoPath == <<>>
PathOf(k) == <<"data", "videos", k>>
DEFAULT_MODEL == "gemini-2.5-pro"

\* config.MODELS: per-model input/output rate, in milli-dollars per million tokens
MODELS ==
  [m \in {"gemini-3-pro-preview", "gemini-2.5-pro", "gemini-2.5-flash",
          "gemini-2.5-flash-lite", "gemini-2.0-flash", "gemini-2.0-flash-lite",
          "gemini-2.0-flash-exp"} |->
     CASE m = "gemini-3-pro-preview" -> [input |-> 2000, output |-> 12000]
       [] m = "gemini-2.5-pro" -> [input |-> 1250, output |-> 10000]
       [] m = "gemini-2.5-flash" -> [input |-> 300, output |-> 2500]
       [] m = "gemini-2.5-flash-lite" -> [input |-> 100, output |-> 400]
       [] m = "gemini-2.0-flash" -> [input |-> 100, output |-> 400]
       [] m = "gemini-2.0-flash-lite" -> [input |-> 75, output |-> 300]
       [] m = "gemini-2.0-flash-exp" -> [input |-> 0, output |-> 0]]

\* get_model_info that falls back to the first model of the table
get_model_info_first(model_id) ==
  IF model_id \in DOMAIN MODELS THEN MODELS[model_id]
  ELSE MODELS["gemini-3-pro-preview"]

\* MODELS.get(model_id, MODELS[DEFAULT_MODEL])
get_model_info(model_id) ==
  IF model_id \in DOMAIN MODELS THEN MODELS[model_id] ELSE MODELS[DEFAULT_MODEL]

\* a whole number of seconds, in ticks
Seconds(n) == n * DurDen

\* int(x) for x >= 0 given in 1/DurDen
int(x) == x \div DurDen

\* estimate_cost raises when the duration is None (TypeError on None * 283)
\* or NaN, as pandas hands over a None in a numeric column (ValueError in int())
estimate_cost_raises(video_duration_seconds) == video_duration_seconds = NoneNum

\* estimate_cost from the costs on: total_input_tokens is in 1/DurDen token
CostBreakdown(total_input_tokens, model_id) ==
  LET model_info == get_model_info(model_id)
      input_cost == total_input_tokens * model_info.input
      output_cost == AVERAGE_RESPONSE_TOKENS * DurDen * model_info.output
  IN [input_tokens |-> int(total_input_tokens),
      output_tokens |-> AVERAGE_RESPONSE_TOKENS,
      total_tokens |-> int(total_input_tokens + AVERAGE_RESPONSE_TOKENS * DurDen),
      input_cost |-> input_cost,
      output_cost |-> output_cost,
      total_cost |-> input_cost + output_cost,
      model |-> model_id]

\* estimate_cost that counts the video tokens only, not the audio tokens
estimate_cost_video_only(video_duration_seconds, model_id) ==
  CostBreakdown(video_duration_seconds * TOKENS_PER_VIDEO_SECOND
                  + AVERAGE_PROMPT_TOKENS * DurDen, model_id)

\* estimate_cost without the prompt overhead
estimate_cost_no_prompt(video_duration_seconds, model_id) ==
  CostBreakdown(video_duration_seconds
                  * (TOKENS_PER_VIDEO_SECOND + TOKENS_PER_AUDIO_SECOND), model_id)

estimate_cost(video_duration_seconds, model_id) ==
  LET video_tokens == video_duration_seconds
                        * (TOKENS_PER_VIDEO_SECOND + TOKENS_PER_AUDIO_SECOND)
      total_input_tokens == video_tokens + AVERAGE_PROMPT_TOKENS * DurDen
  IN CostBreakdown(total_input_tokens, model_id)

\* ------------------------------------------------------------ run: state
VARIABLES
  api_key,            \* st.session_state.api_key, a sequence of characters
  cujs,               \* st.session_state.cujs, in list order
  videos,             \* st.session_state.videos, in list order
  cuj_video_mapping,  \* st.session_state.cuj_video_mapping: CUJ id -> video id
  selected_model,     \* st.session_state.selected_model
  disk,               \* the file paths that exist on disk
  results,            \* st.session_state.results: CUJ id -> displayed result
  show_cleanup_dialog,
  db,                 \* table analysis_results, rows in id order (id = position)
  pc,                 \* "idle" | "iterating" | "resolved" | "invoking" | "completed"
  i,                  \* loop index of `for i, cuj in enumerate(cujs)` (0-based)
  video,              \* the video resolved for the current CUJ
  results_buffer, total_cost, successes, failures, errors_list,
  surfaced,           \* what the last click showed with st.error / st.warning
  summary,            \* the summary shown when the run completed
  cujState,           \* history: the stage each CUJ of the run has reached
  assignment,         \* history: the video id resolved for each CUJ so far
  invocations,        \* history: calls of client.analyze_video_with_retry in the run
  clicks, runs        \* history: clicks on Run Analysis, runs started

runVars ==
  <<api_key, cujs, videos, cuj_video_mapping, selected_model, disk, results,
    show_cleanup_dialog, db, pc, i, video, results_buffer, total_cost, successes,
    failures, errors_list, surfaced, summary, cujState, assignment, invocations,
    clicks, runs>>

\* --------------------------------------------------------- retry: state
\* one call of DriveClient.exponential_backoff_retry(func, max_retries)
VARIABLES
  max_retries,        \* the argument
  retry_count,        \* the local counter
  rpc,                \* "calling" | "sleeping" | "returned" | "raised"
  raised,             \* the exception the call ended with
  retval,             \* the value the call returned
  waits,              \* history: every wait_time slept, in order
  attempts,           \* history: calls of func
  last_status,        \* history: what the latest call of func ended with
  all_retryable       \* history: every call of func so far failed retryably

retryVars ==
  <<max_retries, retry_count, rpc, raised, retval, waits, attempts, last_status,
    all_retryable>>

\* -------------------------------------------------------- upload: state
\* one call of DriveClient.upload_file(file_path)
VARIABLES
  service,            \* self.service is set
  file_exists,        \* os.path.exists(file_path)
  file_size,          \* os.path.getsize(file_path), in chunks of 5 MB, rounded up
  upc,                \* "idle" | "start" | "simple" | "chunking" | "sleeping" |
                      \* "returned" | "raised"
  sent,               \* chunks the resumable request has uploaded
  response,           \* the local `response`
  upload_raised,      \* the text of the DriveAPIError the call ended with
  progress,           \* what progress_callback was last called with
  chunk_status        \* history: what the latest remote call ended with

uploadVars ==
  <<service, file_exists, file_size, upc, sent, response, upload_raised, progress,
    chunk_status>>

\* ---------------------------------------------------------- cost: state
VARIABLES
  estimates           \* history: the calls of estimate_cost made, with results

costVars == <<estimates>>

\* -------------------------------------------------------- review: state
\* the results view; it shows st.session_state.results and writes to db
VARIABLES
  cards,              \* the result cards as last rendered: CUJ id -> what is shown
  render_raised,      \* the results view raised while it was rendered
  peer_results,       \* st.session_state.results of a second browser session
  submitted           \* history: the form whose verification was last saved

reviewVars == <<cards, render_raised, peer_results, submitted>>

\* ------------------------------------------------------- mapping: state
\* the Video Mapping expander; it writes st.session_state.cuj_video_mapping
VARIABLES
  selection,          \* st.session_state["mapping_<CUJ id>"], the value of each
                      \* select box: a video id, NoneNum for "Auto (Round Robin)"
  unmapped            \* history: CUJ id -> the video id of the entry that the
                      \* latest reselection of Auto removed

mappingVars == <<selection, unmapped>>

\* -------------------------------------------------------- verify: state
\* calls of DatabaseManager.verify_analysis made by any caller
VARIABLES
  verify_result       \* history: the id the latest call was given and what it
                      \* returned

verifyVars == <<verify_result>>

\* what an action of one part leaves alone
offRunVars == <<retryVars, uploadVars, costVars, reviewVars, mappingVars, verifyVars>>
offRetryVars == <<runVars, uploadVars, costVars, reviewVars, mappingVars, verifyVars>>
offUploadVars == <<runVars, retryVars, costVars, reviewVars, mappingVars, verifyVars>>
offCostVars == <<runVars, retryVars, uploadVars, reviewVars, mappingVars, verifyVars>>

\* --------------------------------------------------------- run: the inputs
\* the credentials a user can have saved: none, a Google-style key, another key
ApiKeys == {<<>>, <<"A", "I", "z", "a", "k">>, <<"s", "k", "A", "I">>}

\* str.startswith
startswith(s, prefix) ==
  /\ Len(s) >= Len(prefix)
  /\ SubSeq(s, 1, Len(prefix)) = prefix

\* str.lower on the status strings that occur
lower(s) == IF s = "Ready" THEN "ready" ELSE s

\* the rows a video with id k can be, as get_videos / the uploader leave them
VideoRows(k) ==
  { [id |-> k, file_path |-> PathOf(k), status |-> "ready",
     duration |-> Seconds(300)],
    [id |-> k, file_path |-> PathOf(k), status |-> "Ready", duration |-> NoneNum],
    [id |-> k, file_path |-> NoPath, status |-> "ready", duration |-> Seconds(300)],
    [id |-> k, file_path |-> PathOf(k), status |-> "No file", duration |-> NoneNum] }

VideoLists ==
  UNION { { vs \in [1..n -> UNION {VideoRows(k) : k \in 1..n}] :
              \A k \in 1..n : vs[k] \in VideoRows(k) } : n \in 0..MaxVideos }

\* CUJ k has id k; task names are user text and need not be unique
TaskOf(k) == IF k % 2 = 1 THEN "checkout" ELSE "search"

CujLists ==
  { [k \in 1..n |-> [id |-> k, task |-> TaskOf(k)]] : n \in 0..MaxCujs }

\* a manual mapping with at most one entry; the video id may be one that is
\* no longer in the list (MaxVideos + 1)
Mappings(cs) ==
  {<<>>} \cup { (c :> v) : c \in {cs[k].id : k \in 1..Len(cs)}, v \in 1..(MaxVideos + 1) }

\* what client.analyze_video_with_retry can hand back to the handler
Verdicts ==
  { [status |-> "Pass", friction_score |-> 1, confidence_score |-> 5],
    [status |-> "Fail", friction_score |-> 4, confidence_score |-> 2] }

Outcomes ==
  { [kind |-> "verdict", analysis |-> a] : a \in Verdicts }
    \cup { [kind |-> k] : k \in {"no_status", "falsy", "GeminiAPIError", "Exception"} }

\* ------------------------------------------------------------- run: helpers
\* app.py: videos with a file path and status ready
valid_videos ==
  SelectSeq(videos, LAMBDA v : v.file_path # NoPath /\ lower(v.status) = "ready")

Exists(path) == path \in disk

\* Preflight without the check of the video files
PreflightNoFileCheck ==
  IF api_key = <<>> THEN <<"Missing API Key">>
  ELSE IF valid_videos = <<>> THEN <<"No videos with valid files">>
  ELSE IF cujs = <<>> THEN <<"No CUJs defined">>
  ELSE IF ~startswith(api_key, <<"A", "I", "z", "a">>)
    THEN <<"API key doesn't look valid">> ELSE <<>>

\* the pre-flight of the Run Analysis button: the messages it shows, in order;
\* empty when the run may start
Preflight ==
  IF api_key = <<>> THEN <<"Missing API Key">>
  ELSE IF valid_videos = <<>> THEN <<"No videos with valid files">>
  ELSE IF cujs = <<>> THEN <<"No CUJs defined">>
  ELSE
    LET missing_videos ==
          SelectSeq(valid_videos, LAMBDA v : ~Exists(v.file_path))
    IN (IF ~startswith(api_key, <<"A", "I", "z", "a">>)
          THEN <<"API key doesn't look valid">> ELSE <<>>)
       \o (IF missing_videos # <<>> THEN <<"Missing video files">> ELSE <<>>)

\* ResolveVideo that never looks at the manual mapping
ResolveVideoRoundRobinOnly(cuj, idx) ==
  valid_videos[(idx % Len(valid_videos)) + 1]

\* the asset of the CUJ at 0-based position idx
ResolveVideo(cuj, idx) ==
  LET vv == valid_videos
      round_robin == vv[(idx % Len(vv)) + 1]
  IN IF cuj.id \in DOMAIN cuj_video_mapping
       THEN LET video_id == cuj_video_mapping[cuj.id]
                hits == SelectSeq(vv, LAMBDA v : v.id = video_id)
            IN IF hits # <<>> THEN hits[1] ELSE round_robin
       ELSE round_robin

\* save_analysis that writes the AI status into the override column too
NewRowOverridden(cuj_id, video_id, model_used, analysis, cost) ==
  [id |-> Len(db) + 1, cuj_id |-> cuj_id, video_id |-> video_id,
   model_used |-> model_used, status |-> analysis.status,
   friction_score |-> analysis.friction_score,
   confidence_score |-> analysis.confidence_score, cost |-> cost,
   human_verified |-> FALSE, human_override_status |-> analysis.status,
   human_override_friction |-> NoneNum, human_notes |-> None, verified_at |-> NoneNum]

\* DatabaseManager.save_analysis: the row INSERTed; id is AUTOINCREMENT
NewRow(cuj_id, video_id, model_used, analysis, cost) ==
  [id |-> Len(db) + 1, cuj_id |-> cuj_id, video_id |-> video_id,
   model_used |-> model_used, status |-> analysis.status,
   friction_score |-> analysis.friction_score,
   confidence_score |-> analysis.confidence_score, cost |-> cost,
   human_verified |-> FALSE, human_override_status |-> None,
   human_override_friction |-> NoneNum, human_notes |-> None, verified_at |-> NoneNum]

NoVideo == [id |-> NoneNum, file_path |-> NoPath, status |-> None, duration |-> NoneNum]
NoSummary == [successes |-> NoneNum, failures |-> NoneNum, total_cost |-> NoneNum,
              errors |-> <<>>]

SetState(k, s) == [cujState EXCEPT ![k] = s]

\* ---------------------------------------------------------------- run: Init
RunInit ==
  /\ api_key \in ApiKeys
  /\ cujs \in CujLists
  /\ videos \in VideoLists
  /\ cuj_video_mapping \in Mappings(cujs)
  /\ selected_model = DEFAULT_MODEL
  /\ disk = {videos[k].file_path : k \in 1..Len(videos)} \ {NoPath}
  /\ results = <<>>
  /\ show_cleanup_dialog = FALSE
  /\ db = <<>>
  /\ pc = "idle"
  /\ i = 0
  /\ video = NoVideo
  /\ results_buffer = <<>>
  /\ total_cost = 0
  /\ successes = 0
  /\ failures = 0
  /\ errors_list = <<>>
  /\ surfaced = <<>>
  /\ summary = NoSummary
  /\ cujState = <<>>
  /\ assignment = <<>>
  /\ invocations = 0
  /\ clicks = 0
  /\ runs = 0

\* ------------------------------------------------------------- run: actions
\* the Run Analysis button up to the loop: pre-flight, client construction,
\* the run's counters
RunAnalysisClick ==
  /\ pc = "idle"
  /\ clicks < MaxClicks
  /\ Preflight = <<>> => runs < MaxRuns
  /\ clicks' = clicks + 1
  /\ \E client_ok \in BOOLEAN :
       IF Preflight # <<>> \/ ~client_ok
         THEN \* st.error / st.warning, then st.stop()
              /\ surfaced' = IF Preflight # <<>> THEN Preflight
                             ELSE <<"Failed to initialize Gemini client">>
              /\ UNCHANGED <<pc, i, results_buffer, total_cost, successes, failures,
                             errors_list, summary, cujState, assignment, runs>>
         ELSE /\ surfaced' = <<>>
              /\ pc' = "iterating"
              /\ i' = 0
              /\ results_buffer' = <<>>
              /\ total_cost' = 0
              /\ successes' = 0
              /\ failures' = 0
              /\ errors_list' = <<>>
              /\ summary' = NoSummary
              /\ cujState' = [k \in 1..Len(cujs) |-> "PENDING"]
              /\ assignment' = <<>>
              /\ runs' = runs + 1
  /\ UNCHANGED <<api_key, cujs, videos, cuj_video_mapping, selected_model, disk,
                 results, show_cleanup_dialog, db, video, invocations>>
  /\ UNCHANGED offRunVars

\* ResolveAsset that takes the next video after each success instead of
\* going by the CUJ's position
ResolveAssetBySuccesses ==
  /\ pc = "iterating"
  /\ i < Len(cujs)
  /\ video' = ResolveVideo(cujs[i + 1], successes)
  /\ assignment' = Append(assignment, video'.id)
  /\ cujState' = SetState(i + 1, "ASSET_RESOLVED")
  /\ pc' = "resolved"
  /\ UNCHANGED <<api_key, cujs, videos, cuj_video_mapping, selected_model, disk,
                 results, show_cleanup_dialog, db, i, results_buffer, total_cost,
                 successes, failures, errors_list, surfaced, summary, invocations,
                 clicks, runs>>
  /\ UNCHANGED offRunVars

\* loop head and asset resolution for the CUJ at position i
ResolveAsset ==
  /\ pc = "iterating"
  /\ i < Len(cujs)
  /\ video' = ResolveVideo(cujs[i + 1], i)
  /\ assignment' = Append(assignment, video'.id)
  /\ cujState' = SetState(i + 1, "ASSET_RESOLVED")
  /\ pc' = "resolved"
  /\ UNCHANGED <<api_key, cujs, videos, cuj_video_mapping, selected_model, disk,
                 results, show_cleanup_dialog, db, i, results_buffer, total_cost,
                 successes, failures, errors_list, surfaced, summary, invocations,
                 clicks, runs>>
  /\ UNCHANGED offRunVars

\* CheckFile without the re-check: the inference call is always made
CheckFileNoRecheck ==
  /\ pc = "resolved"
  /\ invocations' = invocations + 1
  /\ cujState' = SetState(i + 1, "INVOKING")
  /\ pc' = "invoking"
  /\ UNCHANGED <<errors_list, failures, i>>
  /\ UNCHANGED <<api_key, cujs, videos, cuj_video_mapping, selected_model, disk,
                 results, show_cleanup_dialog, db, video, results_buffer, total_cost,
                 successes, surfaced, summary, assignment, clicks, runs>>
  /\ UNCHANGED offRunVars

\* the file re-check; when the file is there the inference call is made
CheckFile ==
  /\ pc = "resolved"
  /\ IF ~Exists(video.file_path)
       THEN /\ errors_list' = Append(errors_list,
                 [task |-> cujs[i + 1].task,
                  msg |-> [text |-> "Video file not found", about |-> video.file_path]])
            /\ failures' = failures + 1
            /\ cujState' = SetState(i + 1, "FAILED")
            /\ i' = i + 1
            /\ pc' = "iterating"
            /\ UNCHANGED invocations
       ELSE /\ invocations' = invocations + 1
            /\ cujState' = SetState(i + 1, "INVOKING")
            /\ pc' = "invoking"
            /\ UNCHANGED <<errors_list, failures, i>>
  /\ UNCHANGED <<api_key, cujs, videos, cuj_video_mapping, selected_model, disk,
                 results, show_cleanup_dialog, db, video, results_buffer, total_cost,
                 successes, surfaced, summary, assignment, clicks, runs>>
  /\ UNCHANGED offRunVars

\* Failed without the try/except around the loop body: the exception leaves
\* the handler
FailedEscapes(text, cost_added) ==
  /\ total_cost' = total_cost + cost_added
  /\ pc' = "aborted"
  /\ UNCHANGED <<errors_list, failures, cujState, i, db, results_buffer, successes>>

\* the except branches: one entry in errors_list, failures += 1, continue;
\* cost_added is what total_cost had been added to before the exception
Failed(text, cost_added) ==
  /\ errors_list' = Append(errors_list,
       [task |-> cujs[i + 1].task, msg |-> [text |-> text, about |-> NoPath]])
  /\ failures' = failures + 1
  /\ total_cost' = total_cost + cost_added
  /\ cujState' = SetState(i + 1, "FAILED")
  /\ i' = i + 1
  /\ pc' = "iterating"
  /\ UNCHANGED <<db, results_buffer, successes>>

\* Succeeded that puts the new row before the rows already there
SucceededPrepends(analysis, cost, save_ok) ==
  /\ total_cost' = total_cost + cost
  /\ db' = IF save_ok
             THEN <<NewRow(cujs[i + 1].id, video.id, selected_model, analysis, cost)>>
                    \o db
             ELSE db
  /\ results_buffer' =
       [c \in DOMAIN results_buffer \cup {cujs[i + 1].id} |->
          IF c = cujs[i + 1].id
            THEN [status |-> analysis.status,
                  friction_score |-> analysis.friction_score,
                  confidence_score |-> analysis.confidence_score,
                  video_used |-> video.id, video_id |-> video.id,
                  model_used |-> selected_model, cost |-> cost]
            ELSE results_buffer[c]]
  /\ successes' = successes + 1
  /\ cujState' = SetState(i + 1, "SUCCEEDED")
  /\ i' = i + 1
  /\ pc' = "iterating"
  /\ UNCHANGED <<errors_list, failures>>

\* the success branch: cost, save_analysis (which returns -1 when the INSERT
\* fails; the handler does not look at what it returns), results_buffer,
\* successes += 1
Succeeded(analysis, cost, save_ok) ==
  /\ total_cost' = total_cost + cost
  /\ db' = IF save_ok
             THEN Append(db, NewRow(cujs[i + 1].id, video.id, selected_model,
                                    analysis, cost))
             ELSE db
  /\ results_buffer' =
       [c \in DOMAIN results_buffer \cup {cujs[i + 1].id} |->
          IF c = cujs[i + 1].id
            THEN [status |-> analysis.status,
                  friction_score |-> analysis.friction_score,
                  confidence_score |-> analysis.confidence_score,
                  video_used |-> video.id, video_id |-> video.id,
                  model_used |-> selected_model, cost |-> cost]
            ELSE results_buffer[c]]
  /\ successes' = successes + 1
  /\ cujState' = SetState(i + 1, "SUCCEEDED")
  /\ i' = i + 1
  /\ pc' = "iterating"
  /\ UNCHANGED <<errors_list, failures>>

\* `if analysis:` is false and there is no else: nothing is counted
Dropped ==
  /\ cujState' = SetState(i + 1, "NO_OUTCOME")
  /\ i' = i + 1
  /\ pc' = "iterating"
  /\ UNCHANGED <<db, results_buffer, total_cost, successes, failures, errors_list>>

\* client.analyze_video_with_retry returns or raises, and the rest of the
\* loop body runs; the text of an `except Exception` entry is
\* "Unexpected error: " + str(e)
AnalysisReturns ==
  /\ pc = "invoking"
  /\ \E o \in Outcomes, save_ok \in BOOLEAN :
       CASE o.kind = "GeminiAPIError" -> Failed("GeminiAPIError", 0)
         [] o.kind = "Exception" -> Failed("Unexpected error", 0)
         [] o.kind = "falsy" -> Dropped
         [] o.kind = "no_status" ->
              \* a non-empty dict without 'status': analysis['status'] raises
              \* KeyError after total_cost was added to
              IF estimate_cost_raises(video.duration)
                THEN Failed("Unexpected error: unsupported operand type(s)", 0)
                ELSE Failed("Unexpected error: 'status'",
                            estimate_cost(video.duration, selected_model).total_cost)
         [] o.kind = "verdict" ->
              IF estimate_cost_raises(video.duration)
                THEN Failed("Unexpected error: unsupported operand type(s)", 0)
                ELSE Succeeded(o.analysis,
                               estimate_cost(video.duration, selected_model).total_cost,
                               save_ok)
  /\ UNCHANGED <<api_key, cujs, videos, cuj_video_mapping, selected_model, disk,
                 results, show_cleanup_dialog, video, surfaced, summary, assignment,
                 invocations, clicks, runs>>
  /\ UNCHANGED offRunVars

\* after the loop: session results replaced, summary shown, cleanup offered
RunComplete ==
  /\ pc = "iterating"
  /\ i = Len(cujs)
  /\ results' = results_buffer
  /\ summary' = [successes |-> successes, failures |-> failures,
                 total_cost |-> total_cost, errors |-> errors_list]
  /\ show_cleanup_dialog' = TRUE
  /\ pc' = "completed"
  /\ UNCHANGED <<api_key, cujs, videos, cuj_video_mapping, selected_model, disk, db,
                 i, video, results_buffer, total_cost, successes, failures,
                 errors_list, surfaced, cujState, assignment, invocations, clicks,
                 runs>>
  /\ UNCHANGED offRunVars

\* time.sleep(1); st.rerun(): the script starts over, so the handler's locals
\* and what it had drawn on the page are gone
Rerun ==
  /\ pc = "completed"
  /\ pc' = "idle"
  /\ i' = 0
  /\ video' = NoVideo
  /\ results_buffer' = <<>>
  /\ total_cost' = 0
  /\ successes' = 0
  /\ failures' = 0
  /\ errors_list' = <<>>
  /\ surfaced' = <<>>
  /\ summary' = NoSummary
  /\ cujState' = <<>>
  /\ assignment' = <<>>
  /\ invocations' = 0
  /\ UNCHANGED <<api_key, cujs, videos, cuj_video_mapping, selected_model, disk,
                 results, show_cleanup_dialog, db, clicks, runs>>
  /\ UNCHANGED offRunVars

\* the two templates of the summary line, with the numbers they show
SummaryLine(s) ==
  IF s.failures = 0
    THEN [text |-> "Analysis Complete! All analyses succeeded",
          successes |-> s.successes, failures |-> NoneNum]
    ELSE [text |-> "Analysis Complete: succeeded, failed",
          successes |-> s.successes, failures |-> s.failures]

\* "Keep Videos" in the cleanup dialog
KeepVideos ==
  /\ pc = "idle"
  /\ show_cleanup_dialog
  /\ show_cleanup_dialog' = FALSE
  /\ UNCHANGED <<api_key, cujs, videos, cuj_video_mapping, selected_model, disk,
                 results, db, pc, i, video, results_buffer, total_cost, successes,
                 failures, errors_list, surfaced, summary, cujState, assignment,
                 invocations, clicks, runs>>
  /\ UNCHANGED offRunVars

\* "Delete Analyzed Videos": delete_video_file on the file of every video of
\* valid_videos; the videos table and st.session_state.videos are not written
DeleteAnalyzedVideos ==
  /\ pc = "idle"
  /\ show_cleanup_dialog
  /\ disk' = disk \ {valid_videos[k].file_path : k \in 1..Len(valid_videos)}
  /\ show_cleanup_dialog' = FALSE
  /\ UNCHANGED <<api_key, cujs, videos, cuj_video_mapping, selected_model, results,
                 db, pc, i, video, results_buffer, total_cost, successes, failures,
                 errors_list, surfaced, summary, cujState, assignment, invocations,
                 clicks, runs>>
  /\ UNCHANGED offRunVars

\* ---------------------------------------------------------- mapping
\* the select boxes as the mapping was last written from them
MappingIdle ==
  /\ selection = [c \in {cujs[k].id : k \in 1..Len(cujs)} |->
                    IF c \in DOMAIN cuj_video_mapping THEN cuj_video_mapping[c]
                    ELSE NoneNum]
  /\ unmapped = <<>>

\* the loop of the expander over st.session_state.cujs with the select
\* boxes at sel, but `del` left out
WriteMappingNoDel(mapping, sel) ==
  [c \in DOMAIN mapping \cup {c \in DOMAIN sel : sel[c] # NoneNum} |->
     IF c \in DOMAIN sel /\ sel[c] # NoneNum THEN sel[c] ELSE mapping[c]]

\* the loop of the expander over st.session_state.cujs with the select
\* boxes at sel: a chosen video is written under the CUJ id, and the entry
\* of a CUJ whose box is at Auto is deleted
WriteMapping(mapping, sel) ==
  [c \in (DOMAIN mapping \ {c \in DOMAIN sel : sel[c] = NoneNum})
          \cup {c \in DOMAIN sel : sel[c] # NoneNum} |->
     IF c \in DOMAIN sel THEN sel[c] ELSE mapping[c]]

\* the user picks a video in the select box of a CUJ; the script reruns and
\* the expander is drawn
SelectVideo ==
  /\ pc = "idle"
  /\ cujs # <<>> /\ valid_videos # <<>>
  /\ \E k \in 1..Len(cujs), n \in 1..Len(valid_videos) :
       LET c == cujs[k].id
           selected_video == valid_videos[n].id
       IN /\ selection[c] # selected_video
          /\ selection' = [selection EXCEPT ![c] = selected_video]
          /\ unmapped' = [d \in DOMAIN unmapped \ {c} |-> unmapped[d]]
  /\ cuj_video_mapping' = WriteMapping(cuj_video_mapping, selection')
  /\ UNCHANGED <<api_key, cujs, videos, selected_model, disk, results,
                 show_cleanup_dialog, db, pc, i, video, results_buffer, total_cost,
                 successes, failures, errors_list, surfaced, summary, cujState,
                 assignment, invocations, clicks, runs>>
  /\ UNCHANGED <<retryVars, uploadVars, costVars, reviewVars, verifyVars>>

\* the user puts the select box of a CUJ back to "Auto (Round Robin)"; the
\* script reruns and the expander is drawn
SelectAuto ==
  /\ pc = "idle"
  /\ cujs # <<>> /\ valid_videos # <<>>
  /\ \E k \in 1..Len(cujs) :
       LET c == cujs[k].id
       IN /\ selection[c] # NoneNum
          /\ selection' = [selection EXCEPT ![c] = NoneNum]
          /\ unmapped' = [d \in DOMAIN unmapped \cup {c} |->
                            IF d = c THEN selection[c] ELSE unmapped[d]]
  /\ cuj_video_mapping' = WriteMapping(cuj_video_mapping, selection')
  /\ UNCHANGED <<api_key, cujs, videos, selected_model, disk, results,
                 show_cleanup_dialog, db, pc, i, video, results_buffer, total_cost,
                 successes, failures, errors_list, surfaced, summary, cujState,
                 assignment, invocations, clicks, runs>>
  /\ UNCHANGED <<retryVars, uploadVars, costVars, reviewVars, verifyVars>>

\* outside the program: a video file is removed from disk
DeleteFile ==
  /\ \E p \in disk : disk' = disk \ {p}
  /\ UNCHANGED <<api_key, cujs, videos, cuj_video_mapping, selected_model, results,
                 show_cleanup_dialog, db, pc, i, video, results_buffer, total_cost,
                 successes, failures, errors_list, surfaced, summary, cujState,
                 assignment, invocations, clicks, runs>>
  /\ UNCHANGED offRunVars

\* ------------------------------------------------------------ retry: inputs
MaxMaxRetries == 7
JitterDen == 2

\* waits are counted in 1/JitterDen seconds; random.random() is j / JitterDen
WaitCapRateLimit == 64
WaitCapServer == 32

RateLimitStatuses == {403, 429}
ServerErrorStatuses == {500, 502, 503, 504}

\* what one call of func can do: return, raise HttpError with a status, or
\* raise something that is no HttpError
HttpStatuses == RateLimitStatuses \cup ServerErrorStatuses \cup {404}
NoStatus == 0
OtherErrorStatus == 1
FuncOutcomes == {NoStatus, OtherErrorStatus} \cup HttpStatuses

RECURSIVE Pow2(_)
Pow2(n) == IF n = 0 THEN 1 ELSE 2 * Pow2(n - 1)

Min(a, b) == IF a <= b THEN a ELSE b

NoError == [type |-> None, text |-> None, n |-> NoneNum, context |-> NoneNum]

\* RetriesExhausted raised without the HttpError attached
RetriesExhaustedNoContext(text, error_status) ==
  [type |-> "DriveAPIError", text |-> text, n |-> max_retries, context |-> NoneNum]

\* raise DriveAPIError(...) inside `except HttpError as error`: Python sets
\* __context__ to the HttpError being handled
RetriesExhausted(text, error_status) ==
  [type |-> "DriveAPIError", text |-> text, n |-> max_retries,
   context |-> error_status]

NonRetryable(error_status) ==
  [type |-> "DriveAPIError", text |-> "Drive API error", n |-> NoneNum,
   context |-> error_status]

\* line 177, outside any except block: no __context__
MaxRetriesExceeded ==
  [type |-> "DriveAPIError", text |-> "Max retries exceeded", n |-> max_retries,
   context |-> NoneNum]

\* an exception that is no HttpError is not caught
Propagated ==
  [type |-> "OtherError", text |-> None, n |-> NoneNum, context |-> NoneNum]

\* RateLimitWait without the cap
RateLimitWaitNoCap(count, jitter) == Pow2(count) * JitterDen + jitter

\* line 161: min((2 ** retry_count) + random.random(), 64)
RateLimitWait(count, jitter) ==
  Min(Pow2(count) * JitterDen + jitter, WaitCapRateLimit * JitterDen)

\* line 170: min((2 ** retry_count), 32)
ServerWait(count) == Min(Pow2(count) * JitterDen, WaitCapServer * JitterDen)

\* FuncValue that is always what the first call returned
FuncValueOfFirstCall(n) == 1

\* what func() returns on its n-th call; each call returns a value of its
\* own, and `return func()` hands it on as it is
FuncValue(n) == n

\* Exhausted that never gives up
ExhaustedNever(count) == FALSE

\* Exhausted one failure early
ExhaustedOffByOne(count) == count + 1 >= max_retries

\* `if retry_count >= max_retries`
Exhausted(count) == count >= max_retries

RetryIdle ==
  /\ max_retries = 5
  /\ retry_count = 0
  /\ rpc = "idle"
  /\ raised = NoError
  /\ retval = NoneNum
  /\ waits = <<>>
  /\ attempts = 0
  /\ last_status = NoStatus
  /\ all_retryable = TRUE

RetryStart ==
  /\ max_retries \in 0..MaxMaxRetries
  /\ retry_count = 0
  /\ rpc = "calling"
  /\ raised = NoError
  /\ retval = NoneNum
  /\ waits = <<>>
  /\ attempts = 0
  /\ last_status = NoStatus
  /\ all_retryable = TRUE

\* one pass of the while body: func() and the except clauses
Attempt ==
  /\ rpc = "calling"
  /\ retry_count < max_retries
  /\ attempts' = attempts + 1
  /\ \E status \in FuncOutcomes, jitter \in 0..(JitterDen - 1) :
       /\ last_status' = status
       /\ all_retryable' =
            (all_retryable /\ status \in RateLimitStatuses \cup ServerErrorStatuses)
       /\ CASE status = NoStatus ->
                 /\ rpc' = "returned"
                 /\ retval' = FuncValue(attempts')
                 /\ UNCHANGED <<retry_count, raised, waits>>
            [] status = OtherErrorStatus ->
                 /\ rpc' = "raised"
                 /\ raised' = Propagated
                 /\ UNCHANGED <<retry_count, waits, retval>>
            [] status \in RateLimitStatuses ->
                 /\ retry_count' = retry_count + 1
                 /\ IF Exhausted(retry_count')
                      THEN /\ rpc' = "raised"
                           /\ raised' = RetriesExhausted("Rate limit exceeded after retries",
                                                         status)
                           /\ UNCHANGED <<waits, retval>>
                      ELSE /\ waits' = Append(waits, RateLimitWait(retry_count', jitter))
                           /\ rpc' = "sleeping"
                           /\ UNCHANGED <<raised, retval>>
            [] status \in ServerErrorStatuses ->
                 /\ retry_count' = retry_count + 1
                 /\ IF Exhausted(retry_count')
                      THEN /\ rpc' = "raised"
                           /\ raised' = RetriesExhausted("Server error after retries",
                                                         status)
                           /\ UNCHANGED <<waits, retval>>
                      ELSE /\ waits' = Append(waits, ServerWait(retry_count'))
                           /\ rpc' = "sleeping"
                           /\ UNCHANGED <<raised, retval>>
            [] OTHER ->
                 /\ rpc' = "raised"
                 /\ raised' = NonRetryable(status)
                 /\ UNCHANGED <<retry_count, waits, retval>>
  /\ UNCHANGED max_retries
  /\ UNCHANGED offRetryVars

\* time.sleep(wait_time) returns; back to the loop test
Wake ==
  /\ rpc = "sleeping"
  /\ rpc' = "calling"
  /\ UNCHANGED <<max_retries, retry_count, raised, retval, waits, attempts,
                 last_status, all_retryable>>
  /\ UNCHANGED offRetryVars

\* the while test fails: line 177
LoopExit ==
  /\ rpc = "calling"
  /\ ~(retry_count < max_retries)
  /\ rpc' = "raised"
  /\ raised' = MaxRetriesExceeded
  /\ UNCHANGED <<max_retries, retry_count, retval, waits, attempts, last_status,
                 all_retryable>>
  /\ UNCHANGED offRetryVars

\* ----------------------------------------------------------- upload: model
MaxChunks == 4

UploadIdle ==
  /\ service = FALSE
  /\ file_exists = FALSE
  /\ file_size = 1
  /\ upc = "idle"
  /\ sent = 0
  /\ response = None
  /\ upload_raised = None
  /\ progress = NoneNum
  /\ chunk_status = NoStatus

UploadStart ==
  /\ service \in BOOLEAN
  /\ file_exists \in BOOLEAN
  /\ file_size \in 1..MaxChunks
  /\ upc = "start"
  /\ sent = 0
  /\ response = None
  /\ upload_raised = None
  /\ progress = NoneNum
  /\ chunk_status = NoStatus

\* the checks before the try block, and the choice between the resumable and
\* the simple upload (`file_size > 5 * 1024 * 1024`: more than one chunk)
UploadBegin ==
  /\ upc = "start"
  /\ IF ~service
       THEN upc' = "raised" /\ upload_raised' = "Drive service not initialized"
       ELSE IF ~file_exists
         THEN upc' = "raised" /\ upload_raised' = "File not found"
         ELSE /\ upc' = IF file_size > 1 THEN "chunking" ELSE "simple"
              /\ UNCHANGED upload_raised
  /\ UNCHANGED <<service, file_exists, file_size, sent, response, progress,
                 chunk_status>>
  /\ UNCHANGED offUploadVars

\* one pass of `while response is None`: request.next_chunk() and the except
\* clause; a 5xx sleeps 2 seconds and the loop goes round again, with no
\* counter; any other error is re-raised and wrapped by the outer handlers
NextChunk ==
  /\ upc = "chunking"
  /\ \E status \in FuncOutcomes :
       /\ chunk_status' = status
       /\ IF status = NoStatus
            THEN /\ sent' = sent + 1
                 /\ IF sent' = file_size
                      THEN /\ response' = "file"
                           /\ upc' = "returned"
                           /\ UNCHANGED progress
                      ELSE /\ progress' = (100 * sent') \div file_size
                           /\ UNCHANGED <<response, upc>>
                 /\ UNCHANGED upload_raised
            ELSE IF status \in ServerErrorStatuses
              THEN /\ upc' = "sleeping"
                   /\ UNCHANGED <<sent, response, upload_raised, progress>>
              ELSE /\ upc' = "raised"
                   /\ upload_raised' = "Failed to upload file"
                   /\ UNCHANGED <<sent, response, progress>>
  /\ UNCHANGED <<service, file_exists, file_size>>
  /\ UNCHANGED offUploadVars

\* time.sleep(2) returns
UploadWake ==
  /\ upc = "sleeping"
  /\ upc' = "chunking"
  /\ UNCHANGED <<service, file_exists, file_size, sent, response, upload_raised,
                 progress, chunk_status>>
  /\ UNCHANGED offUploadVars

\* the simple upload: one create(...).execute(), no retry
SimpleUpload ==
  /\ upc = "simple"
  /\ \E status \in FuncOutcomes :
       /\ chunk_status' = status
       /\ IF status = NoStatus
            THEN /\ response' = "file"
                 /\ progress' = 100
                 /\ upc' = "returned"
                 /\ UNCHANGED upload_raised
            ELSE /\ upc' = "raised"
                 /\ upload_raised' = "Failed to upload file"
                 /\ UNCHANGED <<response, progress>>
  /\ UNCHANGED <<service, file_exists, file_size, sent>>
  /\ UNCHANGED offUploadVars

\* ------------------------------------------------------------- cost: model
MaxDuration == 5
MaxEstimates == 2

\* durations asked for: short ones tick by tick, 300 seconds, and None
Durations == 0..MaxDuration \cup {Seconds(300), NoneNum}

\* model identifiers asked for: those of the table and two that are not
ModelIds == DOMAIN MODELS \cup {"gemini-1.5-pro", "unknown"}

NoCostInfo ==
  [input_tokens |-> NoneNum, output_tokens |-> NoneNum, total_tokens |-> NoneNum,
   input_cost |-> NoneNum, output_cost |-> NoneNum, total_cost |-> NoneNum,
   model |-> None]

CostIdle == estimates = <<>>

\* one call estimate_cost(video_duration_seconds, model_id)
EstimateCostCall ==
  /\ Len(estimates) < MaxEstimates
  /\ \E d \in Durations, m \in ModelIds :
       estimates' = Append(estimates,
         [video_duration_seconds |-> d, model_id |-> m,
          raised |-> estimate_cost_raises(d),
          cost_info |-> IF estimate_cost_raises(d) THEN NoCostInfo
                        ELSE estimate_cost(d, m)])
  /\ UNCHANGED offCostVars

\* ----------------------------------------------------------- review: model
MaxRows == 2

\* dict.get(key, default)
Get(res, key, default) == IF key \in DOMAIN res THEN res[key] ELSE default

\* Python `a or b` on text and on numbers: a unless it is None, "" or 0
OrText(a, b) == IF a # None /\ a # "" THEN a ELSE b
OrNum(a, b) == IF a # NoneNum /\ a # 0 THEN a ELSE b

\* effective_status with the operands of `or` the other way round
effective_status_ai_first(res) ==
  OrText(res.status, Get(res, "human_override_status", None))

\* res.get('human_override_status') or res['status']
effective_status(res) ==
  OrText(Get(res, "human_override_status", None), res.status)

\* effective_friction that shows the AI score whatever the reviewer stored
effective_friction_ai_only(res) == res.friction_score

\* res.get('human_override_friction') or res['friction_score']
effective_friction(res) ==
  OrNum(Get(res, "human_override_friction", NoneNum), res.friction_score)

\* `score >= 4` with score = res.get('confidence_score', 5): the default is
\* taken only when the key is missing; a None under the key is compared with
\* 4, which raises TypeError
confidence_raises(res) == Get(res, "confidence_score", 5) = NoneNum

\* the card's branches on confidence_score: >= 4, == 3, else (flagged)
review_flag(res) ==
  LET confidence_score == Get(res, "confidence_score", 5)
  IN ~(confidence_score >= 4) /\ ~(confidence_score = 3)

\* the cards loop: one card per result whose CUJ is still in the CUJ list
RenderCards(rs) ==
  [c \in {x \in DOMAIN rs : \E k \in 1..Len(cujs) : cujs[k].id = x} |->
     [effective_status |-> effective_status(rs[c]),
      effective_friction |-> effective_friction(rs[c]),
      is_verified |-> Get(rs[c], "human_verified", FALSE),
      review_flag |-> review_flag(rs[c])]]

\* the Confidence Overview loop, which runs over every result before the
\* cards are drawn
ViewRaises(rs) == \E c \in DOMAIN rs : confidence_raises(rs[c])

\* the results view: nothing below the overview is drawn when it raises
ResultsView(rs) == IF ViewRaises(rs) THEN <<>> ELSE RenderCards(rs)

\* the verdicts behind stored rows: those of Verdicts, one of medium
\* confidence, and one without confidence_score (the field is optional)
StoredVerdicts ==
  Verdicts \cup { [status |-> "Partial", friction_score |-> 3, confidence_score |-> 3],
                  [status |-> "Pass", friction_score |-> 2] }

\* the verification sub-record of a row: as save_analysis leaves it, and as
\* a verification in an earlier session left it (status overridden to Fail,
\* friction kept, with notes)
Unverified ==
  [human_verified |-> FALSE, human_override_status |-> None,
   human_override_friction |-> NoneNum, human_notes |-> None, verified_at |-> NoneNum]

VerifiedEarlier ==
  [human_verified |-> TRUE, human_override_status |-> "Fail",
   human_override_friction |-> NoneNum, human_notes |-> "saw it", verified_at |-> 1]

\* a row of analysis_results; confidence_score =
\* analysis.get('confidence_score') is NULL when the key is missing
Row(k, c, a, v) ==
  [id |-> k, cuj_id |-> c, video_id |-> 1, model_used |-> DEFAULT_MODEL,
   status |-> a.status, friction_score |-> a.friction_score,
   confidence_score |-> Get(a, "confidence_score", NoneNum),
   cost |-> estimate_cost(Seconds(300), DEFAULT_MODEL).total_cost,
   human_verified |-> v.human_verified,
   human_override_status |-> v.human_override_status,
   human_override_friction |-> v.human_override_friction,
   human_notes |-> v.human_notes,
   verified_at |-> v.verified_at]

\* the stores a sequence of runs and verifications leaves: row k has id k,
\* is for one of two CUJs, and is unverified or (a Pass of high confidence)
\* was verified earlier
RowsOf(k) ==
  { Row(k, c, a, Unverified) : c \in 1..2, a \in StoredVerdicts }
    \cup { Row(k, c, [status |-> "Pass", friction_score |-> 1, confidence_score |-> 5],
                VerifiedEarlier) : c \in 1..2 }

Stores ==
  UNION { { st \in [1..n -> UNION {RowsOf(k) : k \in 1..n}] :
              \A k \in 1..n : st[k] \in RowsOf(k) } : n \in 0..MaxRows }

\* get_latest_results with MIN(id) in place of MAX(id)
get_latest_results_lowest(store) ==
  LET ids == {store[k].cuj_id : k \in 1..Len(store)}
      latest(c) == store[CHOOSE k \in 1..Len(store) :
                      /\ store[k].cuj_id = c
                      /\ \A j \in 1..Len(store) : store[j].cuj_id = c => j >= k]
  IN [c \in ids |->
        LET row == latest(c)
        IN [analysis_id |-> row.id, video_used |-> row.video_id,
            video_id |-> row.video_id, video_path |-> PathOf(row.video_id),
            model_used |-> row.model_used, status |-> row.status,
            friction_score |-> row.friction_score,
            confidence_score |-> row.confidence_score, cost |-> row.cost,
            human_verified |-> row.human_verified,
            human_override_status |-> row.human_override_status,
            human_override_friction |-> row.human_override_friction,
            human_notes |-> row.human_notes]]

\* DatabaseManager.get_latest_results: per CUJ id the row with the highest id
get_latest_results(store) ==
  LET ids == {store[k].cuj_id : k \in 1..Len(store)}
      latest(c) == store[CHOOSE k \in 1..Len(store) :
                      /\ store[k].cuj_id = c
                      /\ \A j \in 1..Len(store) : store[j].cuj_id = c => j <= k]
  IN [c \in ids |->
        LET row == latest(c)
        IN [analysis_id |-> row.id, video_used |-> row.video_id,
            video_id |-> row.video_id, video_path |-> PathOf(row.video_id),
            model_used |-> row.model_used, status |-> row.status,
            friction_score |-> row.friction_score,
            confidence_score |-> row.confidence_score, cost |-> row.cost,
            human_verified |-> row.human_verified,
            human_override_status |-> row.human_override_status,
            human_override_friction |-> row.human_override_friction,
            human_notes |-> row.human_notes]]

\* st.session_state.results as a run leaves it: results_buffer, whose entries
\* are the analysis dicts: no analysis_id, no human_* keys, and
\* confidence_score only when the response had it
RunResults(store) ==
  LET loaded == get_latest_results(store)
  IN [c \in DOMAIN loaded |->
        IF loaded[c].confidence_score = NoneNum
          THEN [status |-> loaded[c].status,
                friction_score |-> loaded[c].friction_score,
                video_used |-> loaded[c].video_id, video_id |-> loaded[c].video_id,
                model_used |-> loaded[c].model_used, cost |-> loaded[c].cost]
          ELSE [status |-> loaded[c].status,
                friction_score |-> loaded[c].friction_score,
                confidence_score |-> loaded[c].confidence_score,
                video_used |-> loaded[c].video_id, video_id |-> loaded[c].video_id,
                model_used |-> loaded[c].model_used, cost |-> loaded[c].cost]]

NoSubmission ==
  [by |-> None, cuj_id |-> NoneNum, analysis_id |-> NoneNum, override_status |-> None,
   override_friction |-> None, notes |-> None]

ReviewIdle ==
  /\ cards = <<>>
  /\ render_raised = FALSE
  /\ peer_results = <<>>
  /\ submitted = NoSubmission

\* the results view on a page that shows results: loaded at session start,
\* or left by the run that just completed
ReviewStart ==
  /\ api_key = <<>>
  /\ cujs = [k \in 1..2 |-> [id |-> k, task |-> TaskOf(k)]]
  /\ videos = <<[id |-> 1, file_path |-> PathOf(1), status |-> "ready",
                 duration |-> Seconds(300)]>>
  /\ cuj_video_mapping = <<>>
  /\ selected_model = DEFAULT_MODEL
  /\ disk = {PathOf(1)}
  /\ db \in Stores
  /\ results \in {get_latest_results(db), RunResults(db)}
  /\ show_cleanup_dialog = FALSE
  /\ pc = "idle"
  /\ i = 0
  /\ video = NoVideo
  /\ results_buffer = <<>>
  /\ total_cost = 0
  /\ successes = 0
  /\ failures = 0
  /\ errors_list = <<>>
  /\ surfaced = <<>>
  /\ summary = NoSummary
  /\ cujState = <<>>
  /\ assignment = <<>>
  /\ invocations = 0
  /\ clicks = 0
  /\ runs = 0
  /\ cards = ResultsView(results)
  /\ render_raised = ViewRaises(results)
  /\ submitted = NoSubmission

\* one reviewer: there is no second session
PeerAbsent == peer_results = <<>>

\* a second session, started on the same store as the first, which holds
\* one record: both have loaded it
PeerLoaded ==
  /\ Len(db) = 1
  /\ results = get_latest_results(db)
  /\ peer_results = get_latest_results(db)

StatusOptions == {"Keep AI", "Pass", "Fail", "Partial"}
FrictionOptions == {"Keep AI", "1", "2", "3", "4", "5"}

\* int(override_friction) on the options of the select box
IntOf(option) ==
  CASE option = "1" -> 1 [] option = "2" -> 2 [] option = "3" -> 3
    [] option = "4" -> 4 [] option = "5" -> 5

\* final_status that stores the reviewer's choice as it is
final_status_as_chosen(override_status) == override_status

\* None if override_status == "Keep AI" else override_status
final_status(override_status) ==
  IF override_status = "Keep AI" THEN None ELSE override_status

\* None if override_friction == "Keep AI" else int(override_friction)
final_friction(override_friction) ==
  IF override_friction = "Keep AI" THEN NoneNum ELSE IntOf(override_friction)

\* verify_analysis whose UPDATE has no WHERE clause
verify_analysis_every_row(store, analysis_id, override_status, override_friction, notes, now) ==
  [k \in 1..Len(store) |->
     [store[k] EXCEPT !.human_verified = TRUE,
                      !.human_override_status = override_status,
                      !.human_override_friction = override_friction,
                      !.human_notes = notes,
                      !.verified_at = now]]

\* DatabaseManager.verify_analysis: the UPDATE ... WHERE id = analysis_id;
\* now is CURRENT_TIMESTAMP
verify_analysis(store, analysis_id, override_status, override_friction, notes, now) ==
  [k \in 1..Len(store) |->
     IF store[k].id = analysis_id
       THEN [store[k] EXCEPT !.human_verified = TRUE,
                             !.human_override_status = override_status,
                             !.human_override_friction = override_friction,
                             !.human_notes = notes,
                             !.verified_at = now]
       ELSE store[k]]

\* what verify_analysis returns: True after the commit, False from the
\* except branch; update_raised is whether the UPDATE or the commit
\* raised
verify_analysis_returns(store, analysis_id, update_raised) == ~update_raised

NoCall == [analysis_id |-> NoneNum, success |-> FALSE]

VerifyIdle == verify_result = NoCall

\* the overrides a caller passes
OverrideStatuses == {None, "Pass"}
OverrideFrictions == {NoneNum, 3}

\* a call of verify_analysis by any caller, with an id that is or is not
\* that of a record
VerifyCall ==
  /\ \E analysis_id \in 1..(MaxRows + 1), override_status \in OverrideStatuses,
        override_friction \in OverrideFrictions, notes \in {"", "saw it"},
        update_raised \in BOOLEAN :
       /\ db' = IF update_raised THEN db
                ELSE verify_analysis(db, analysis_id, override_status,
                                     override_friction, notes, 1)
       /\ verify_result' =
            [analysis_id |-> analysis_id,
             success |-> verify_analysis_returns(db, analysis_id, update_raised)]
  /\ UNCHANGED <<api_key, cujs, videos, cuj_video_mapping, selected_model, disk,
                 results, show_cleanup_dialog, pc, i, video, results_buffer,
                 total_cost, successes, failures, errors_list, surfaced, summary,
                 cujState, assignment, invocations, clicks, runs>>
  /\ UNCHANGED <<retryVars, uploadVars, costVars, reviewVars, mappingVars>>

\* with r: the keys of r set or added in the dict res
Update(res, r) ==
  [key \in DOMAIN res \cup DOMAIN r |-> IF key \in DOMAIN r THEN r[key] ELSE res[key]]

\* what the handler writes to the session's copy of the result after a
\* successful save: `if final_status:` and the like skip None, "" and 0
MarkVerified(res, status, friction, notes) ==
  LET stamped == Update(res, [human_verified |-> TRUE])
      with_status == IF status # None /\ status # ""
                       THEN Update(stamped, [human_override_status |-> status])
                       ELSE stamped
      with_friction == IF friction # NoneNum /\ friction # 0
                         THEN Update(with_status, [human_override_friction |-> friction])
                         ELSE with_status
  IN IF notes # "" THEN Update(with_friction, [human_notes |-> notes])
     ELSE with_friction

Notes == {"", "saw it"}

\* "Mark as Verified" on the card of cuj_id; update_ok is whether
\* verify_analysis returned True (it returns False when the UPDATE raised)
SubmitVerification ==
  /\ \E cuj_id \in DOMAIN cards, override_status \in StatusOptions,
        override_friction \in FrictionOptions, notes \in Notes,
        update_ok \in BOOLEAN :
       LET res == results[cuj_id]
           saved == "analysis_id" \in DOMAIN res /\ update_ok
       IN /\ pc = "idle"
          /\ ~cards[cuj_id].is_verified
          /\ IF saved
               THEN /\ db' = verify_analysis(db, res.analysis_id,
                                             final_status(override_status),
                                             final_friction(override_friction),
                                             notes, 1)
                    /\ results' = [results EXCEPT ![cuj_id] =
                         MarkVerified(res, final_status(override_status),
                                      final_friction(override_friction), notes)]
                    /\ submitted' =
                         [by |-> "session", cuj_id |-> cuj_id,
                          analysis_id |-> res.analysis_id,
                          override_status |-> override_status,
                          override_friction |-> override_friction, notes |-> notes]
               ELSE UNCHANGED <<db, results, submitted>>
  /\ cards' = ResultsView(results')
  /\ render_raised' = ViewRaises(results')
  /\ UNCHANGED peer_results
  /\ UNCHANGED <<api_key, cujs, videos, cuj_video_mapping, selected_model, disk,
                 show_cleanup_dialog, pc, i, video, results_buffer, total_cost,
                 successes, failures, errors_list, surfaced, summary, cujState,
                 assignment, invocations, clicks, runs>>
  /\ UNCHANGED <<retryVars, uploadVars, costVars, mappingVars, verifyVars>>

\* what the second reviewer picks in the select boxes
PeerStatusChoices == {"Keep AI", "Fail"}
PeerFrictionChoices == {"Keep AI", "5"}

\* the same form submitted in the second session, on the cards that session
\* shows: those of its own copy of the results
PeerSubmitVerification ==
  /\ \E cuj_id \in DOMAIN ResultsView(peer_results),
        override_status \in PeerStatusChoices,
        override_friction \in PeerFrictionChoices,
        notes \in Notes, update_ok \in BOOLEAN :
       LET res == peer_results[cuj_id]
           saved == "analysis_id" \in DOMAIN res /\ update_ok
       IN /\ ~ResultsView(peer_results)[cuj_id].is_verified
          /\ IF saved
               THEN /\ db' = verify_analysis(db, res.analysis_id,
                                             final_status(override_status),
                                             final_friction(override_friction),
                                             notes, 1)
                    /\ peer_results' = [peer_results EXCEPT ![cuj_id] =
                         MarkVerified(res, final_status(override_status),
                                      final_friction(override_friction), notes)]
                    /\ submitted' =
                         [by |-> "peer", cuj_id |-> cuj_id,
                          analysis_id |-> res.analysis_id,
                          override_status |-> override_status,
                          override_friction |-> override_friction, notes |-> notes]
               ELSE UNCHANGED <<db, peer_results, submitted>>
  /\ UNCHANGED <<results, cards, render_raised>>
  /\ UNCHANGED <<api_key, cujs, videos, cuj_video_mapping, selected_model, disk,
                 show_cleanup_dialog, pc, i, video, results_buffer, total_cost,
                 successes, failures, errors_list, surfaced, summary, cujState,
                 assignment, invocations, clicks, runs>>
  /\ UNCHANGED <<retryVars, uploadVars, costVars, mappingVars, verifyVars>>

\* a new session: results are loaded from the store and the page is rendered
NewSession ==
  /\ results' = get_latest_results(db)
  /\ cards' = ResultsView(results')
  /\ render_raised' = ViewRaises(results')
  /\ UNCHANGED <<peer_results, submitted>>
  /\ UNCHANGED <<api_key, cujs, videos, cuj_video_mapping, selected_model, disk,
                 show_cleanup_dialog, db, pc, i, video, results_buffer, total_cost,
                 successes, failures, errors_list, surfaced, summary, cujState,
                 assignment, invocations, clicks, runs>>
  /\ UNCHANGED <<retryVars, uploadVars, costVars, mappingVars, verifyVars>>

\* a session that shows what it loaded from the store at its start and can
\* run the analysis: two CUJs, one video, at most one record in the store
SessionStart ==
  /\ api_key = <<"A", "I", "z", "a", "k">>
  /\ cujs = [k \in 1..2 |-> [id |-> k, task |-> TaskOf(k)]]
  /\ videos = <<[id |-> 1, file_path |-> PathOf(1), status |-> "ready",
                 duration |-> Seconds(300)]>>
  /\ cuj_video_mapping = <<>>
  /\ selected_model = DEFAULT_MODEL
  /\ disk = {PathOf(1)}
  /\ db \in {st \in Stores : Len(st) <= 1}
  /\ results = get_latest_results(db)
  /\ show_cleanup_dialog = FALSE
  /\ pc = "idle"
  /\ i = 0
  /\ video = NoVideo
  /\ results_buffer = <<>>
  /\ total_cost = 0
  /\ successes = 0
  /\ failures = 0
  /\ errors_list = <<>>
  /\ surfaced = <<>>
  /\ summary = NoSummary
  /\ cujState = <<>>
  /\ assignment = <<>>
  /\ invocations = 0
  /\ clicks = 0
  /\ runs = 0
  /\ cards = ResultsView(results)
  /\ render_raised = ViewRaises(results)
  /\ submitted = NoSubmission

\* time.sleep(1); st.rerun() at the end of the handler, and the script pass
\* it starts: the handler's locals are gone and the results view is drawn
\* from st.session_state.results
RerunPage ==
  /\ pc = "completed"
  /\ pc' = "idle"
  /\ i' = 0
  /\ video' = NoVideo
  /\ results_buffer' = <<>>
  /\ total_cost' = 0
  /\ successes' = 0
  /\ failures' = 0
  /\ errors_list' = <<>>
  /\ surfaced' = <<>>
  /\ summary' = NoSummary
  /\ cujState' = <<>>
  /\ assignment' = <<>>
  /\ invocations' = 0
  /\ cards' = ResultsView(results)
  /\ render_raised' = ViewRaises(results)
  /\ UNCHANGED <<api_key, cujs, videos, cuj_video_mapping, selected_model, disk,
                 results, show_cleanup_dialog, db, clicks, runs>>
  /\ UNCHANGED <<peer_results, submitted>>
  /\ UNCHANGED <<retryVars, uploadVars, costVars, mappingVars, verifyVars>>

\* SUM(ar.cost) over the rows of store at the positions ks
RECURSIVE SumOfCost(_, _)
SumOfCost(store, ks) ==
  IF ks = {} THEN 0
  ELSE LET k == CHOOSE x \in ks : TRUE
       IN store[k].cost + SumOfCost(store, ks \ {k})

\* DatabaseManager.get_statistics for the one user: the counts, and COUNT(*)
\* and SUM(ar.cost) over analysis_results JOIN cujs JOIN videos
get_statistics(store, cuj_table, video_table) ==
  LET joined == {k \in 1..Len(store) :
                   /\ \E c \in 1..Len(cuj_table) : cuj_table[c].id = store[k].cuj_id
                   /\ \E v \in 1..Len(video_table) :
                        video_table[v].id = store[k].video_id}
  IN [total_cujs |-> Len(cuj_table), total_videos |-> Len(video_table),
      total_analyses |-> Cardinality(joined),
      total_cost |-> SumOfCost(store, joined)]

\* "Confirm Delete" on a video: delete_video_file, db.delete_video (DELETE
\* FROM videos; analysis_results is not touched and foreign keys are not
\* enforced), the row taken out of st.session_state.videos, st.rerun()
DeleteVideo ==
  /\ pc = "idle"
  /\ \E n \in 1..Len(videos) :
       /\ disk' = disk \ {videos[n].file_path}
       /\ videos' = SelectSeq(videos, LAMBDA v : v.id # videos[n].id)
  /\ UNCHANGED <<api_key, cujs, cuj_video_mapping, selected_model, results,
                 show_cleanup_dialog, db, pc, i, video, results_buffer, total_cost,
                 successes, failures, errors_list, surfaced, summary, cujState,
                 assignment, invocations, clicks, runs>>
  /\ UNCHANGED <<retryVars, uploadVars, costVars, reviewVars, mappingVars, verifyVars>>

\* ------------------------------------------------------------ specifications
vars ==
  <<runVars, retryVars, uploadVars, costVars, reviewVars, mappingVars, verifyVars>>

\* the analysis run; no Drive call is in progress
Init ==
  RunInit /\ MappingIdle /\ VerifyIdle /\ RetryIdle
    /\ UploadIdle /\ CostIdle /\ ReviewIdle

Next ==
  \/ RunAnalysisClick
  \/ ResolveAsset
  \/ CheckFile
  \/ AnalysisReturns
  \/ RunComplete
  \/ Rerun
  \/ KeepVideos
  \/ DeleteAnalyzedVideos
  \/ DeleteFile

Spec == Init /\ [][Next]_vars

\* the run's own steps: the script runs them one after the other
RunStep == ResolveAsset \/ CheckFile \/ AnalysisReturns \/ RunComplete

\* the script runs on once started, and each inference call returns or raises
FairSpec == Spec /\ WF_vars(RunStep)

\* one call of exponential_backoff_retry; the session is at rest
RunAtRest ==
  /\ RunInit
  /\ api_key = <<>>
  /\ cujs = <<>>
  /\ videos = <<>>
  /\ cuj_video_mapping = <<>>

RetryNext == Attempt \/ Wake \/ LoopExit

RetryInit ==
  RunAtRest /\ MappingIdle /\ VerifyIdle /\ UploadIdle
    /\ CostIdle /\ ReviewIdle /\ RetryStart

RetrySpec == RetryInit /\ [][RetryNext]_vars

\* one call of upload_file; each step of the call is taken once it can be
UploadNext == UploadBegin \/ NextChunk \/ UploadWake \/ SimpleUpload

UploadInit ==
  RunAtRest /\ MappingIdle /\ VerifyIdle /\ RetryIdle
    /\ CostIdle /\ ReviewIdle /\ UploadStart

UploadSpec == UploadInit /\ [][UploadNext]_vars

UploadFairSpec == UploadSpec /\ WF_vars(UploadNext)

\* calls of estimate_cost, from the cost estimator of the sidebar or the run
CostNext == EstimateCostCall

CostInit ==
  RunAtRest /\ MappingIdle /\ VerifyIdle /\ RetryIdle
    /\ UploadIdle /\ ReviewIdle /\ CostIdle

CostSpec == CostInit /\ [][CostNext]_vars

\* the results view: verifications, and sessions started afresh
ReviewNext == SubmitVerification \/ NewSession

ReviewInit ==
  RetryIdle /\ UploadIdle /\ CostIdle /\ PeerAbsent /\ ReviewStart
    /\ MappingIdle /\ VerifyIdle

ReviewSpec == ReviewInit /\ [][ReviewNext]_vars

\* two reviewers: two sessions started on the same store, each with the form
TwoReviewerNext == SubmitVerification \/ PeerSubmitVerification \/ NewSession

TwoReviewerInit ==
  RetryIdle /\ UploadIdle /\ CostIdle /\ ReviewStart
    /\ MappingIdle /\ VerifyIdle /\ PeerLoaded

TwoReviewerSpec == TwoReviewerInit /\ [][TwoReviewerNext]_vars

\* the mapping expander and the runs of a session that starts with a saved
\* key, no mapping and every select box at Auto
MappingStart ==
  /\ RunInit
  /\ api_key = <<"A", "I", "z", "a", "k">>
  /\ cuj_video_mapping = <<>>

MappingNext ==
  \/ SelectVideo
  \/ SelectAuto
  \/ RunAnalysisClick
  \/ ResolveAsset
  \/ CheckFile
  \/ AnalysisReturns
  \/ RunComplete
  \/ Rerun

MappingInit ==
  MappingStart /\ MappingIdle /\ VerifyIdle /\ RetryIdle
    /\ UploadIdle /\ CostIdle /\ ReviewIdle

MappingSpec == MappingInit /\ [][MappingNext]_vars

\* one session: what it loaded, its runs and its verifications
SessionNext ==
  \/ RunAnalysisClick
  \/ ResolveAsset
  \/ CheckFile
  \/ AnalysisReturns
  \/ RunComplete
  \/ RerunPage
  \/ SubmitVerification

SessionInit ==
  RetryIdle /\ UploadIdle /\ CostIdle /\ PeerAbsent /\ SessionStart
    /\ MappingIdle /\ VerifyIdle

SessionSpec == SessionInit /\ [][SessionNext]_vars

\* calls of verify_analysis on a store
VerifyNext == VerifyCall

VerifyInit ==
  RetryIdle /\ UploadIdle /\ CostIdle /\ PeerAbsent /\ ReviewStart /\ MappingIdle
    /\ VerifyIdle

VerifySpec == VerifyInit /\ [][VerifyNext]_vars

\* one session with the video library: runs, verifications, deletions
LibraryNext ==
  \/ RunAnalysisClick
  \/ ResolveAsset
  \/ CheckFile
  \/ AnalysisReturns
  \/ RunComplete
  \/ RerunPage
  \/ SubmitVerification
  \/ DeleteVideo

LibraryInit ==
  RetryIdle /\ UploadIdle /\ CostIdle /\ PeerAbsent /\ SessionStart /\ MappingIdle
    /\ VerifyIdle

LibrarySpec == LibraryInit /\ [][LibraryNext]_vars

\* ================================================================== claims
InRun == pc \in {"iterating", "resolved", "invoking"}

Terminal == {"SUCCEEDED", "FAILED"}

\* C1. Continue-on-failure: once the run has completed, every CUJ of the list
\* has reached exactly one terminal outcome, SUCCEEDED or FAILED, whatever
\* made any of them fail.
C1_EveryCujTerminal ==
  pc = "completed" =>
    /\ Len(cujState) = Len(cujs)
    /\ \A k \in 1..Len(cujs) : cujState[k] \in Terminal

\* C3. Run accounting: during the run successes + failures is the number of
\* CUJs already processed, and at completion it is the number of CUJs.
C3_SuccessesPlusFailures ==
  /\ InRun => successes + failures = i
  /\ pc = "completed" => successes + failures = Len(cujs)

RECURSIVE SumCost(_, _)
SumCost(buffer, ids) ==
  IF ids = {} THEN 0
  ELSE LET c == CHOOSE x \in ids : TRUE
       IN buffer[c].cost + SumCost(buffer, ids \ {c})

\* C4. Cost accounting: after each CUJ and at completion, total_cost is the
\* sum of the costs of the CUJs counted in successes (those in
\* results_buffer); a CUJ that ended FAILED adds nothing.
C4_TotalCostIsCostOfSuccesses ==
  (InRun \/ pc = "completed") =>
    total_cost = SumCost(results_buffer, DOMAIN results_buffer)

\* C5. Persistence failure is a CUJ failure: a CUJ is counted in successes
\* only when save_analysis wrote its row; when the write fails the CUJ is
\* counted in failures.
C5_SuccessOnlyWhenSaved ==
  [][successes' = successes + 1 => Len(db') = Len(db) + 1]_vars

Range(seq) == {seq[k] : k \in 1..Len(seq)}

\* C2. Run termination: a run that has started reaches COMPLETED and shows
\* its summary (the run's counters and error list), however many CUJs fail.
C2_RunReachesCompleted ==
  InRun ~> (/\ pc = "completed"
            /\ summary = [successes |-> successes, failures |-> failures,
                          total_cost |-> total_cost, errors |-> errors_list])

C2_Witness_AllFailedYetCompleted ==
  /\ pc = "completed"
  /\ Len(cujs) >= 2
  /\ failures = Len(cujs)
  /\ summary.failures = Len(cujs)

\* the pre-flight conditions that are violated in the current state
PreflightViolations ==
  (IF api_key = <<>> THEN {"Missing API Key"} ELSE {})
    \cup (IF valid_videos = <<>> THEN {"No videos with valid files"} ELSE {})
    \cup (IF cujs = <<>> THEN {"No CUJs defined"} ELSE {})
    \cup (IF api_key # <<>> /\ ~startswith(api_key, <<"A", "I", "z", "a">>)
            THEN {"API key doesn't look valid"} ELSE {})
    \cup (IF \E v \in Range(valid_videos) : ~Exists(v.file_path)
            THEN {"Missing video files"} ELSE {})

\* C6. Pre-flight aborts before any spend: a click on Run Analysis while any
\* pre-flight condition is violated starts no run, makes no inference call,
\* persists nothing, adds no cost and leaves the displayed results as they are.
C6_PreflightAbortsBeforeSpend ==
  [][(clicks' # clicks /\ PreflightViolations # {}) =>
       /\ pc' = "idle"
       /\ runs' = runs
       /\ invocations' = invocations
       /\ db' = db
       /\ results' = results
       /\ total_cost' = total_cost]_vars

C6_Witness_RejectedForMissingFile ==
  /\ clicks >= 1
  /\ runs = 0
  /\ pc = "idle"
  /\ "Missing video files" \in Range(surfaced)
  /\ invocations = 0

\* C7. Pre-flight reports all violations together: what a rejected click
\* shows is exactly the set of violated pre-flight conditions.
C7_AllViolationsSurfaced ==
  [][(clicks' # clicks /\ PreflightViolations # {}) =>
       Range(surfaced') = PreflightViolations]_vars

\* C8. Asset vanished between listing and use: when the resolved asset's file
\* is gone at the re-check, the CUJ is FAILED with a file-not-found entry,
\* failures grows by one, no inference call is made, no cost is added, and
\* the loop goes on to the next CUJ.
C8_VanishedAssetFailsCujOnly ==
  [][(pc = "resolved" /\ pc' # "resolved" /\ ~Exists(video.file_path)) =>
       /\ failures' = failures + 1
       /\ successes' = successes
       /\ errors_list' = Append(errors_list, errors_list'[Len(errors_list')])
       /\ errors_list'[Len(errors_list')].msg.text = "Video file not found"
       /\ errors_list'[Len(errors_list')].msg.about = video.file_path
       /\ cujState'[i + 1] = "FAILED"
       /\ invocations' = invocations
       /\ total_cost' = total_cost
       /\ i' = i + 1
       /\ pc' = "iterating"]_vars

C8_Witness_VanishedThenNextSucceeds ==
  /\ pc = "completed"
  /\ \E k \in 1..(Len(cujs) - 1) :
       /\ cujState[k] = "FAILED"
       /\ cujState[k + 1] = "SUCCEEDED"
  /\ failures = 1
  /\ errors_list[1].msg.text = "Video file not found"
  /\ invocations = Len(cujs) - 1

RetryableStatuses == RateLimitStatuses \cup ServerErrorStatuses

ExhaustedTexts == {"Rate limit exceeded after retries", "Server error after retries"}

\* C9. Retry bound (max_retries >= 1): while every call of func fails with a
\* retryable status the wrapper keeps calling, until exactly max_retries
\* calls, and then raises retries-exhausted; a failure that is not retryable
\* ends the call at once, with that error and no wait after it, so on the
\* first call func is called exactly once and nothing is slept.
C9_RetryBound ==
  max_retries >= 1 =>
    /\ (all_retryable /\ attempts >= 1) =>
         /\ attempts <= max_retries
         /\ rpc # "returned"
         /\ (rpc = "raised" <=> attempts = max_retries)
         /\ (rpc = "raised" => raised.text \in ExhaustedTexts /\ raised.n = max_retries)
    /\ (attempts >= 1 /\ last_status \notin RetryableStatuses \cup {NoStatus}) =>
         /\ rpc = "raised"
         /\ raised \in {NonRetryable(last_status), Propagated}
         /\ Len(waits) = attempts - 1
         /\ (attempts = 1 => waits = <<>>)

C9_Witness_ExhaustedAfterMaxRetries ==
  /\ max_retries = 5
  /\ all_retryable
  /\ attempts = 5
  /\ rpc = "raised"
  /\ Len(waits) = 4

\* C10. Retries-exhausted error: when the wrapper gives up after a retryable
\* failure, what it raises differs from every error raised for a failure that
\* is not retryable, and carries the HttpError of the last failed call.
C10_ExhaustedErrorIsDistinctAndCarriesCause ==
  (rpc = "raised" /\ last_status \in RetryableStatuses) =>
    /\ raised.type = "DriveAPIError"
    /\ raised # Propagated
    /\ \A s \in HttpStatuses : raised.text # NonRetryable(s).text
    /\ raised.context = last_status

C10_Witness_GaveUpOnServerError ==
  /\ rpc = "raised"
  /\ max_retries >= 3
  /\ attempts = max_retries
  /\ last_status = 503
  /\ Len(waits) = max_retries - 1
  /\ \E k \in 1..Len(waits) : waits[k] % JitterDen # 0

\* C11. Backoff schedule: the wait slept after the k-th retryable failure
\* (k < max_retries) is min(2^k + jitter, 64) seconds with 0 <= jitter < 1
\* when the failure was a rate limit, and at most 32 seconds when it was a
\* server error; no wait exceeds its cap, and when the failure before was a
\* rate limit too the wait is at least as long as the one before.
C11_BackoffSchedule ==
  [][Len(waits') = Len(waits) + 1 =>
       LET k == Len(waits')
           w == waits'[k]
       IN /\ k < max_retries
          /\ last_status' \in RetryableStatuses
          /\ last_status' \in RateLimitStatuses =>
               /\ \E j \in 0..(JitterDen - 1) :
                    w = Min(Pow2(k) * JitterDen + j, 64 * JitterDen)
               /\ w <= 64 * JitterDen
               /\ (k >= 2 /\ last_status \in RateLimitStatuses) => w >= waits[k - 1]
          /\ last_status' \in ServerErrorStatuses =>
               /\ w = Min(Pow2(k), 32) * JitterDen
               /\ w <= 32 * JitterDen]_vars

C11_Witness_RateLimitRunReachesCap ==
  /\ Len(waits) = 6
  /\ waits[1] = 2 * JitterDen + 1
  /\ waits[5] = 32 * JitterDen + 1
  /\ waits[6] = 64 * JitterDen

RECURSIVE SumSeq(_)
SumSeq(seq) == IF seq = <<>> THEN 0 ELSE seq[1] + SumSeq(Tail(seq))

\* C12. Attempts and total wait are capped (max_retries >= 1): whatever mix of
\* rate-limit and server failures one call sees, func is called at most
\* max_retries times, at most max_retries - 1 waits are slept, none after the
\* last failed call or after a success, and the waits add up to at most
\* 64 x (max_retries - 1) seconds.
C12_AttemptsAndTotalWaitCapped ==
  max_retries >= 1 =>
    /\ attempts <= max_retries
    /\ Len(waits) <= max_retries - 1
    /\ SumSeq(waits) <= 64 * (max_retries - 1) * JitterDen
    /\ (rpc \in {"raised", "returned"} /\ attempts >= 1) => Len(waits) = attempts - 1

C12_Witness_MixedFailuresExhausted ==
  /\ max_retries = 7
  /\ rpc = "raised"
  /\ attempts = 7
  /\ Len(waits) = 6
  /\ waits[1] % JitterDen # 0
  /\ waits[6] = 32 * JitterDen

\* C13. No indefinite hang on asset transfer: the resumable chunk loop of
\* upload_file makes a bounded number of attempts, so a call that has entered
\* it returns or raises, also when every next_chunk fails with a 5xx error.
C13_UploadReturnsOrRaises ==
  (upc = "chunking") ~> (upc \in {"returned", "raised"})

\* C14. Assignment rule: with n >= 1 ready assets in list order, the asset
\* resolved for the CUJ at 0-based position i is the manually mapped one when
\* the mapping has an entry for that CUJ whose asset id is in the ready list,
\* and ready_assets[i mod n] otherwise (no entry, or an entry for an asset
\* that is not in the ready list).
C14_AssignmentRule ==
  \A k \in 1..Len(assignment) :
    LET n == Len(valid_videos)
        c == cujs[k].id
        mapped == /\ c \in DOMAIN cuj_video_mapping
                  /\ \E j \in 1..n : valid_videos[j].id = cuj_video_mapping[c]
    IN /\ n >= 1
       /\ assignment[k] = IF mapped THEN cuj_video_mapping[c]
                          ELSE valid_videos[((k - 1) % n) + 1].id

\* 3 CUJs, 2 ready assets, the CUJ at position 2 mapped to asset1
C14_Witness_ThirdCujMappedToSecondAsset ==
  /\ Len(cujs) = 3
  /\ Len(valid_videos) = 2
  /\ cuj_video_mapping = (3 :> 2)
  /\ assignment = <<valid_videos[1].id, valid_videos[2].id, valid_videos[2].id>>

\* C15. Assignment determinism: the asset resolved for each CUJ is a function
\* of the CUJ order, the ready-asset order and the mapping alone: whatever
\* happened to the CUJs before it (success, failure, skipped for a missing
\* file), in every state of a run the asset recorded for position k is the one
\* the resolver gives for position k, so two runs on the same inputs agree.
C15_AssignmentIndependentOfOutcomes ==
  \A k \in 1..Len(assignment) : assignment[k] = ResolveVideo(cujs[k], k - 1).id

C15_Witness_SameAssetAfterSkipAndSuccess ==
  /\ pc = "completed"
  /\ assignment = <<1, 2, 1>>
  /\ cujState = <<"FAILED", "SUCCEEDED", "FAILED">>
  /\ errors_list[1].msg.text = "Video file not found"
  /\ successes = 1

\* d x (258 + 25) + 1000 for a duration of d ticks, in 1/DurDen token
ExactInputTokens(d) == d * (258 + 25) + 1000 * DurDen

\* C16, as claimed. Cost formula: for a duration d >= 0 and a model of the
\* table, estimate_cost returns input_tokens = d x (258 + 25) + 1000,
\* output_tokens = 500, total_tokens = input_tokens + output_tokens and
\* total_cost = input_tokens / 10^6 x input_rate + 500 / 10^6 x output_rate.
C16_CostFormula ==
  \A k \in 1..Len(estimates) :
    LET e == estimates[k]
        d == e.video_duration_seconds
        c == e.cost_info
        rate == MODELS[e.model_id]
    IN (d >= 0 /\ e.model_id \in DOMAIN MODELS) =>
         /\ ~e.raised
         /\ c.input_tokens * DurDen = ExactInputTokens(d)
         /\ c.output_tokens = 500
         /\ c.total_tokens = c.input_tokens + c.output_tokens
         /\ c.total_cost = ExactInputTokens(d) * rate.input + 500 * DurDen * rate.output

\* C16, amended. The returned input_tokens is d x (258 + 25) + 1000 cut to a
\* whole number (equal to it when it is whole, as for every whole number of
\* seconds: 85,900 for d = 300), output_tokens = 500, total_tokens =
\* input_tokens + output_tokens, and total_cost is computed from the uncut
\* count: (d x 283 + 1000) / 10^6 x input_rate + 500 / 10^6 x output_rate;
\* for d = 300 and rates 0.10 / 0.40 that is 0.00879 dollars.
C16_CostFormulaTruncatedTokens ==
  \A k \in 1..Len(estimates) :
    LET e == estimates[k]
        d == e.video_duration_seconds
        c == e.cost_info
        rate == MODELS[e.model_id]
    IN (d >= 0 /\ e.model_id \in DOMAIN MODELS) =>
         /\ ~e.raised
         /\ c.input_tokens * DurDen <= ExactInputTokens(d)
         /\ ExactInputTokens(d) < (c.input_tokens + 1) * DurDen
         /\ c.output_tokens = 500
         /\ c.total_tokens = c.input_tokens + c.output_tokens
         /\ c.total_cost = ExactInputTokens(d) * rate.input + 500 * DurDen * rate.output
         /\ d = 300 * DurDen => c.input_tokens = 85900
         /\ (d = 300 * DurDen /\ rate.input = 100 /\ rate.output = 400) =>
              c.total_cost = 8790000 * DurDen

C16_Witness_FractionCutAndFiveMinutes ==
  /\ Len(estimates) = 2
  /\ estimates[1].video_duration_seconds % DurDen # 0
  /\ estimates[1].model_id \in DOMAIN MODELS
  /\ estimates[1].cost_info.input_tokens * DurDen
       < ExactInputTokens(estimates[1].video_duration_seconds)
  /\ estimates[2].video_duration_seconds = 300 * DurDen
  /\ estimates[2].model_id = "gemini-2.5-flash-lite"
  /\ estimates[2].cost_info.input_tokens = 85900
  /\ estimates[2].cost_info.total_cost = 8790000 * DurDen

\* C17. Cost monotonicity: for one model and durations 0 <= d1 <= d2 the
\* total cost for d1 is at most the total cost for d2, and for d = 0 it is the
\* overhead alone: 1000 prompt tokens at the input rate plus 500 response
\* tokens at the output rate.
C17_CostMonotoneInDuration ==
  \A a, b \in 1..Len(estimates) :
    LET e1 == estimates[a]
        e2 == estimates[b]
        rate == IF e1.model_id \in DOMAIN MODELS THEN MODELS[e1.model_id]
                ELSE MODELS[DEFAULT_MODEL]
    IN /\ (/\ e1.model_id = e2.model_id
           /\ 0 <= e1.video_duration_seconds
           /\ e1.video_duration_seconds <= e2.video_duration_seconds) =>
            /\ ~e1.raised
            /\ ~e2.raised
            /\ e1.cost_info.total_cost <= e2.cost_info.total_cost
       /\ e1.video_duration_seconds = 0 =>
            e1.cost_info.total_cost = (1000 * rate.input + 500 * rate.output) * DurDen

C17_Witness_ZeroThenLonger ==
  /\ Len(estimates) = 2
  /\ estimates[1].model_id = "gemini-2.5-pro"
  /\ estimates[2].model_id = "gemini-2.5-pro"
  /\ estimates[1].video_duration_seconds = 0
  /\ estimates[2].video_duration_seconds = 1
  /\ estimates[1].cost_info.total_cost = 6250000 * DurDen
  /\ estimates[1].cost_info.total_cost < estimates[2].cost_info.total_cost

\* C18. Unknown model fallback: for a model identifier that is not in the
\* table estimate_cost does not raise, and its token counts and costs are
\* those for the default model (gemini-2.5-pro, 1.25 / 10.00 dollars per
\* million tokens) and the same duration.
C18_UnknownModelFallsBack ==
  \A a \in 1..Len(estimates) :
    LET e == estimates[a]
    IN (e.model_id \notin DOMAIN MODELS /\ e.video_duration_seconds # NoneNum) =>
         /\ ~e.raised
         /\ e.cost_info.input_cost = ExactInputTokens(e.video_duration_seconds) * 1250
         /\ e.cost_info.output_cost = 500 * DurDen * 10000
         /\ \A b \in 1..Len(estimates) :
              LET f == estimates[b]
              IN (/\ f.model_id = "gemini-2.5-pro"
                  /\ f.video_duration_seconds = e.video_duration_seconds) =>
                   /\ e.cost_info.input_tokens = f.cost_info.input_tokens
                   /\ e.cost_info.output_tokens = f.cost_info.output_tokens
                   /\ e.cost_info.total_tokens = f.cost_info.total_tokens
                   /\ e.cost_info.input_cost = f.cost_info.input_cost
                   /\ e.cost_info.output_cost = f.cost_info.output_cost
                   /\ e.cost_info.total_cost = f.cost_info.total_cost

C18_Witness_UnknownSameAsDefault ==
  /\ Len(estimates) = 2
  /\ estimates[1].model_id = "unknown"
  /\ estimates[2].model_id = "gemini-2.5-pro"
  /\ estimates[1].video_duration_seconds = 300 * DurDen
  /\ estimates[2].video_duration_seconds = 300 * DurDen
  /\ ~estimates[1].raised
  /\ estimates[1].cost_info.total_cost = 112375000 * DurDen
  /\ estimates[2].cost_info.total_cost = 112375000 * DurDen

\* C19. Missing duration is priced as zero: when the inference call made for
\* a CUJ on an asset without a duration ends, either the call itself failed
\* or returned nothing, or the CUJ is recorded SUCCEEDED and the overhead-only
\* cost (1000 prompt tokens, 500 response tokens) is added; it is never
\* FAILED by the cost model.
C19_MissingDurationPricedAsZero ==
  [][(pc = "invoking" /\ pc' = "iterating" /\ video.duration = NoneNum) =>
       \/ /\ cujState'[i + 1] = "SUCCEEDED"
          /\ successes' = successes + 1
          /\ total_cost' = total_cost
               + (1000 * MODELS[selected_model].input
                    + 500 * MODELS[selected_model].output) * DurDen
       \/ cujState'[i + 1] = "NO_OUTCOME"
       \/ /\ cujState'[i + 1] = "FAILED"
          /\ errors_list'[Len(errors_list')].msg.text
               \in {"GeminiAPIError", "Unexpected error"}]_vars

\* C20. Override precedence: on every result card the effective status is the
\* status override when one is stored in the result and the AI status
\* otherwise, and the effective friction is the friction override when one is
\* stored and the AI friction score otherwise.
C20_OverridePrecedence ==
  \A c \in DOMAIN cards :
    LET res == results[c]
        has_status == /\ "human_override_status" \in DOMAIN res
                      /\ res.human_override_status # None
        has_friction == /\ "human_override_friction" \in DOMAIN res
                        /\ res.human_override_friction # NoneNum
    IN /\ cards[c].effective_status =
            IF has_status THEN res.human_override_status ELSE res.status
       /\ cards[c].effective_friction =
            IF has_friction THEN res.human_override_friction ELSE res.friction_score

\* AI status Fail with override Pass shows Pass, next to a card without
\* override that shows its AI status
C20_Witness_FailOverriddenToPass ==
  /\ DOMAIN cards = {1, 2}
  /\ results[1].status = "Fail"
  /\ Get(results[1], "human_override_status", None) = "Pass"
  /\ Get(results[1], "human_override_friction", NoneNum) = 2
  /\ cards[1].effective_status = "Pass"
  /\ cards[1].effective_friction = 2
  /\ Get(results[2], "human_override_status", None) = None
  /\ results[2].status = "Fail"
  /\ cards[2].effective_status = "Fail"

\* the CUJ of a result is still in the CUJ list, so the result has a card
Shown(c) == \E k \in 1..Len(cujs) : cujs[k].id = c

\* C21. Review flagging: the results view is drawn without error, and a
\* result is flagged "needs review" iff its confidence score is present and
\* <= 2; a confidence of 3, 4 or 5 is not flagged, and neither is an absent
\* one, be it a missing key or a NULL loaded from the store.
C21_ReviewFlagging ==
  /\ ~render_raised
  /\ \A c \in DOMAIN results :
       Shown(c) =>
         /\ c \in DOMAIN cards
         /\ cards[c].review_flag <=>
              (/\ "confidence_score" \in DOMAIN results[c]
               /\ results[c].confidence_score # NoneNum
               /\ results[c].confidence_score <= 2)

\* the record a saved form was about: row k of the store has id k
SubmittedRow == db[submitted.analysis_id]

AIFields(row) ==
  [id |-> row.id, cuj_id |-> row.cuj_id, video_id |-> row.video_id,
   model_used |-> row.model_used, status |-> row.status,
   friction_score |-> row.friction_score,
   confidence_score |-> row.confidence_score, cost |-> row.cost]

\* C23. Verification frame: a verification changes only the verification
\* sub-record of the record with the given id: no record is created or
\* deleted, every other record stays as it is, and the AI fields of every
\* record (status, friction, confidence, cost, model, CUJ id, asset id) stay
\* as they are.
C23_VerificationFrame ==
  [][db' # db =>
       /\ Len(db') = Len(db)
       /\ \A k \in 1..Len(db) :
            /\ AIFields(db'[k]) = AIFields(db[k])
            /\ db[k].id # submitted'.analysis_id => db'[k] = db[k]]_vars

\* two records of one CUJ: the later one verified with an override, the
\* earlier one untouched
C23_Witness_OnlyLatestOfTwoStamped ==
  /\ Len(db) = 2
  /\ db[1].cuj_id = db[2].cuj_id
  /\ submitted.analysis_id = 2
  /\ db[2].human_verified
  /\ db[2].status = "Fail"
  /\ db[2].human_override_status = "Pass"
  /\ ~db[1].human_verified
  /\ db[1].human_notes = None

\* C24. Run is append-only on the store: during a run each CUJ counted as a
\* success adds exactly one new record and nothing else adds one, so the
\* records created by the run are as many as its successes; the records that
\* were there stay where and as they are.
C24_RunAppendOnly ==
  [][InRun =>
       /\ Len(db') >= Len(db)
       /\ SubSeq(db', 1, Len(db)) = db
       /\ successes' = successes + 1 => Len(db') = Len(db) + 1
       /\ successes' = successes => db' = db]_vars

\* C25. Creation order: within a run the loop index only grows, a record
\* created is the one for the CUJ at the index, with an id above every id
\* before it, and an error entry added is for the CUJ at the index and goes
\* to the end of the list; so records and error entries are in CUJ-list order.
C25_CreationOrder ==
  [][InRun =>
       /\ i' >= i
       /\ Len(db') > Len(db) =>
            /\ Len(db') = Len(db) + 1
            /\ db'[Len(db')].cuj_id = cujs[i + 1].id
            /\ \A k \in 1..Len(db) : db'[k].id < db'[Len(db')].id
            /\ i' = i + 1
       /\ Len(errors_list') > Len(errors_list) =>
            /\ errors_list' = Append(errors_list, errors_list'[Len(errors_list')])
            /\ errors_list'[Len(errors_list')].task = cujs[i + 1].task
            /\ i' = i + 1]_vars

\* first and third CUJ saved in that order, the second one failed in between
C25_Witness_TwoSavedAroundAFailure ==
  /\ pc = "completed"
  /\ cujState = <<"SUCCEEDED", "FAILED", "SUCCEEDED">>
  /\ Len(db) = 2
  /\ db[1].cuj_id = cujs[1].id
  /\ db[2].cuj_id = cujs[3].id
  /\ db[1].id < db[2].id
  /\ Len(errors_list) = 1
  /\ errors_list[1].task = cujs[2].task

\* the moves of one CUJ: the chain PENDING -> ASSET_RESOLVED -> INVOKING ->
\* {SUCCEEDED, FAILED}, where the re-check of the file ends a resolved CUJ
\* as FAILED without an invocation
Moves ==
  { <<"PENDING", "ASSET_RESOLVED">>, <<"ASSET_RESOLVED", "INVOKING">>,
    <<"ASSET_RESOLVED", "FAILED">>, <<"INVOKING", "SUCCEEDED">>,
    <<"INVOKING", "FAILED">> }

\* C28. Sequential per-CUJ state machine: within a run each CUJ moves only
\* along PENDING -> ASSET_RESOLVED -> INVOKING -> {SUCCEEDED, FAILED} and
\* never leaves a terminal state, at most one CUJ is in ASSET_RESOLVED or
\* INVOKING, and a CUJ has left PENDING only when the CUJ before it is
\* terminal.
C28_SequentialStateMachine ==
  /\ [](/\ Cardinality({k \in 1..Len(cujState) :
                          cujState[k] \in {"ASSET_RESOLVED", "INVOKING"}}) <= 1
        /\ \A k \in 1..(Len(cujState) - 1) :
             cujState[k + 1] # "PENDING" => cujState[k] \in Terminal)
  /\ [][Len(cujState') = Len(cujState) =>
          \A k \in 1..Len(cujState) :
            \/ cujState'[k] = cujState[k]
            \/ <<cujState[k], cujState'[k]>> \in Moves]_vars

\* the videos the cleanup step deleted the file of
CleanedUp ==
  {k \in 1..Len(videos) :
     /\ show_cleanup_dialog
     /\ ~show_cleanup_dialog'
     /\ videos[k].file_path \in disk
     /\ videos[k].file_path \notin disk'}

\* C29. Readiness: an asset is listed as ready only while its file is
\* usable; in particular, after "Delete Analyzed Videos" removed the file of
\* an asset, that asset is no longer among the ready assets.
C29_CleanedUpAssetNotReady ==
  [][\A k \in CleanedUp :
       ~(/\ videos'[k].file_path # NoPath
         /\ lower(videos'[k].status) = "ready")]_vars

\* what the summary line lets the reader tell
SummaryClass(line) ==
  IF line.failures = NoneNum THEN "zero-failure"
  ELSE IF line.successes > 0 THEN "partial failure" ELSE "total failure"

\* C30. Summary classification: the summary of a completed run tells
\* zero-failure completion, partial failure and total failure apart, and the
\* cost it reports is the accumulated cost of the CUJs that succeeded.
C30_SummaryClassifiesAndReportsCost ==
  pc = "completed" =>
    /\ failures = 0 => SummaryClass(SummaryLine(summary)) = "zero-failure"
    /\ (successes > 0 /\ failures > 0) =>
         SummaryClass(SummaryLine(summary)) = "partial failure"
    /\ failures = Len(cujs) => SummaryClass(SummaryLine(summary)) = "total failure"
    /\ summary.total_cost = SumCost(results_buffer, DOMAIN results_buffer)

\* row k is the result with the highest id among those of its CUJ
HighestOfItsCuj(k) ==
  \A j \in 1..Len(db) : db[j].cuj_id = db[k].cuj_id => db[j].id <= db[k].id

\* C26. Latest result: whatever runs and verifications the store has seen,
\* get_latest_results has one entry per CUJ id with persisted results and no
\* other entry, and the entry is the record with the highest id for that CUJ
\* id, with that record's verdict and verification (so a result created after
\* a verified one is the latest, unverified); reading and verifying leave
\* every earlier record in the store.
C26_LatestIsHighestId ==
  /\ [](/\ DOMAIN get_latest_results(db) = {db[k].cuj_id : k \in 1..Len(db)}
        /\ \A k \in 1..Len(db) :
             HighestOfItsCuj(k) =>
               LET latest == get_latest_results(db)[db[k].cuj_id]
               IN /\ latest.analysis_id = db[k].id
                  /\ latest.status = db[k].status
                  /\ latest.friction_score = db[k].friction_score
                  /\ latest.human_verified = db[k].human_verified
                  /\ latest.human_override_status = db[k].human_override_status
                  /\ latest.human_override_friction = db[k].human_override_friction)
  /\ [][/\ Len(db') = Len(db)
        /\ \A k \in 1..Len(db) : AIFields(db'[k]) = AIFields(db[k])]_vars

\* a CUJ verified earlier and analysed again: the session showed the new
\* result, which has now been verified in its turn, and still shows it; the
\* one verified earlier is still in the store
C26_Witness_NewerResultShownAndVerified ==
  /\ Len(db) = 2
  /\ db[1].cuj_id = 1
  /\ db[2].cuj_id = 1
  /\ db[1].human_verified
  /\ db[1].human_override_status = "Fail"
  /\ submitted.analysis_id = 2
  /\ db[2].human_override_status = "Partial"
  /\ results = get_latest_results(db)
  /\ results[1].analysis_id = 2
  /\ results[1].human_override_status = "Partial"

\* C27. No lost reviewer edit: with two reviewers who both loaded a record as
\* unverified, the overrides and notes one of them has committed to the
\* record are not overwritten by the submission of the other.
C27_NoLostReviewerEdit ==
  [][\A k \in 1..Len(db) :
       db[k].human_verified =>
         /\ db'[k].human_override_status = db[k].human_override_status
         /\ db'[k].human_override_friction = db[k].human_override_friction
         /\ db'[k].human_notes = db[k].human_notes]_vars

\* ---------------------------------------------------------------- C31
\* the positions of the CUJs of the run that have failed, in list order
FailedPositions ==
  SelectSeq([k \in 1..Len(cujState) |-> k], LAMBDA k : cujState[k] = "FAILED")

\* the CUJ ids an entry of errors_list can stand for: the entry names the
\* CUJ by its task text
Denoted(entry) == {cujs[k].id : k \in {n \in 1..Len(cujs) : cujs[n].task = entry.task}}

\* C31: at every point of a run errors_list has as many entries as failures
\* counts, the k-th entry belongs to the k-th failed CUJ in list order, it
\* carries a message, and it identifies that CUJ and no other by its id
C31_ErrorListIdentifiesFailedCujs ==
  /\ Len(errors_list) = failures
  /\ Len(errors_list) = Len(FailedPositions)
  /\ \A k \in 1..Len(errors_list) :
       /\ errors_list[k].msg.text # None
       /\ Denoted(errors_list[k]) = {cujs[FailedPositions[k]].id}

\* ---------------------------------------------------------------- C32
\* C32: the mapping has an entry for a CUJ exactly when the select box of
\* that CUJ was last put on a video, and the entry is that video; a run
\* resolves a CUJ whose box is back at Auto by round robin
C32_MappingFollowsLastSelection ==
  /\ [](\A k \in 1..Len(cujs) :
          LET c == cujs[k].id
          IN /\ c \in DOMAIN cuj_video_mapping <=> selection[c] # NoneNum
             /\ c \in DOMAIN cuj_video_mapping => cuj_video_mapping[c] = selection[c])
  /\ [][(pc = "iterating" /\ pc' = "resolved"
           /\ selection[cujs[i + 1].id] = NoneNum)
          => video' = valid_videos[(i % Len(valid_videos)) + 1]]_vars

\* the run has resolved a CUJ that had been mapped and put back to Auto,
\* by round robin, to another video than the one it had been mapped to
C32_Witness_AutoAgainResolvedRoundRobin ==
  /\ pc = "resolved"
  /\ cujs[i + 1].id \in DOMAIN unmapped
  /\ selection[cujs[i + 1].id] = NoneNum
  /\ video = valid_videos[(i % Len(valid_videos)) + 1]
  /\ video.id # unmapped[cujs[i + 1].id]

\* ---------------------------------------------------------------- C33
\* C33: every result the results view shows carries the id of a persisted
\* record of its CUJ, whether it was loaded at session start or left by the
\* run that just completed, and a submitted verification form leaves that
\* record stamped verified
C33_DisplayedResultReachesStore ==
  /\ [](\A c \in DOMAIN cards :
          /\ "analysis_id" \in DOMAIN results[c]
          /\ \E k \in 1..Len(db) :
               db[k].id = results[c].analysis_id /\ db[k].cuj_id = c)
  /\ [][submitted' # submitted =>
          /\ db'[submitted'.analysis_id].cuj_id = submitted'.cuj_id
          /\ db'[submitted'.analysis_id].human_verified]_vars

\* ---------------------------------------------------------------- C34
\* the fields of a displayed result or of a loaded record that the claim
\* compares; a key that is missing reads as not verified, no override
Projection(res) ==
  [status |-> res.status, friction_score |-> res.friction_score,
   human_verified |-> Get(res, "human_verified", FALSE),
   human_override_status |-> Get(res, "human_override_status", None),
   human_override_friction |-> Get(res, "human_override_friction", NoneNum)]

\* C34: whenever the session is at rest, the results it shows are the
\* store's latest results: the same CUJs (none with a persisted result is
\* missing), and for each the same status, friction, verified flag and
\* overrides
C34_DisplayIsProjectionOfStore ==
  pc = "idle" =>
    /\ DOMAIN results = DOMAIN get_latest_results(db)
    /\ \A c \in DOMAIN results :
         Projection(results[c]) = Projection(get_latest_results(db)[c])

\* ---------------------------------------------------------------- C35
\* C35: a call of verify_analysis that returns True was given the id of a
\* record and leaves it stamped verified; a call that returns False leaves
\* the store as it was; and a call given an id that matches no record
\* leaves the store as it was and returns False
C35_VerifySuccessValue ==
  [][verify_result' # verify_result =>
       LET id == verify_result'.analysis_id
           matches == {k \in 1..Len(db) : db[k].id = id}
       IN /\ verify_result'.success =>
               /\ matches # {}
               /\ \A k \in matches : db'[k].human_verified
          /\ ~verify_result'.success => db' = db
          /\ matches = {} => db' = db /\ ~verify_result'.success]_vars

\* ---------------------------------------------------------------- C36
\* C36: after any runs, verifications and video deletions, get_statistics
\* reports as total_analyses the number of persisted records and as
\* total_cost the sum of their costs
C36_StatisticsCoverAllHistory ==
  LET stats == get_statistics(db, cujs, videos)
  IN /\ stats.total_analyses = Len(db)
     /\ stats.total_cost = SumOfCost(db, 1..Len(db))

\* ---------------------------------------------------------------- C37
\* the verification columns of a row
VerificationOf(row) ==
  [human_verified |-> row.human_verified,
   human_override_status |-> row.human_override_status,
   human_override_friction |-> row.human_override_friction,
   human_notes |-> row.human_notes, verified_at |-> row.verified_at]

\* C37: a record with a status override, a friction override or reviewer
\* notes is verified; a record that save_analysis has just created is
\* unverified with no overrides and no notes; and a verified record stays in
\* the store and stays verified
C37_OverridesImplyVerified ==
  /\ [](\A k \in 1..Len(db) :
          (\/ db[k].human_override_status # None
           \/ db[k].human_override_friction # NoneNum
           \/ db[k].human_notes # None) => db[k].human_verified)
  /\ [][/\ \A k \in (Len(db) + 1)..Len(db') : VerificationOf(db'[k]) = Unverified
        /\ \A k \in 1..Len(db) :
             db[k].human_verified => k <= Len(db') /\ db'[k].human_verified]_vars

\* a record verified with a status override in this session, and after it
\* a record that a run of the session has created
C37_Witness_VerifiedThenNewRecord ==
  /\ submitted.by = "session"
  /\ Len(db) = 2
  /\ db[1].human_verified
  /\ db[1].human_override_status = "Pass"
  /\ runs = 1
  /\ ~db[2].human_verified

\* ---------------------------------------------------------------- C38
\* C38: while every call of func has failed retryably and fewer than
\* max_retries calls were made, the wrapper has not given up, so a k-th call
\* with k <= max_retries is made; when that call succeeds the wrapper has
\* returned its value (the k-th call's value is k) after exactly k calls and
\* k - 1 waits; and once it has returned it calls func no more
C38_RetrySuccessPath ==
  /\ []((all_retryable /\ attempts < max_retries) => rpc \in {"calling", "sleeping"})
  /\ [](rpc = "returned" =>
          /\ attempts = retry_count + 1
          /\ attempts <= max_retries
          /\ Len(waits) = attempts - 1
          /\ retval = attempts
          /\ raised = NoError)
  /\ [][rpc = "returned" => UNCHANGED retryVars]_vars

\* func failed retryably twice and succeeded on the third and last call
\* that max_retries = 3 allows
C38_Witness_SucceededOnLastAllowedCall ==
  /\ rpc = "returned"
  /\ max_retries = 3
  /\ attempts = 3
  /\ Len(waits) = 2
  /\ retval = 3
====
